---- MODULE Spec2Model ----
(***************************************************************************)
(* Model of the cache / request-guard layer of the Darkiworld scraper      *)
(* (src/darkiworld/cache.py) and of the /search handler that drives it     *)
(* (src/darkiworld/routes.py).                                             *)
(*                                                                         *)
(* Worker threads call the methods of TTLCache and RequestGuard.  Every    *)
(* method body runs under the instance's threading.Lock; a method is       *)
(* modelled as the step that enters the `with self._lock` block followed   *)
(* by the steps of the block, so that interleavings of several callers     *)
(* are explored.  time.time() is the variable `now`.                       *)
(*                                                                         *)
(* The key builder (normalize_query, generate_cache_key) is a pure         *)
(* function of its arguments; it is computed on strings character by       *)
(* character, its regular expressions by a backtracking matcher, and the   *)
(* variable `call` records the calls made to it.                           *)
(*                                                                         *)
(* Around that layer: the runtime configuration and its two routes         *)
(* (config.py, routes.py), the checks of /search on its parameters, the    *)
(* driver singleton (driver_sb.py) with the background threads that close  *)
(* it (scraper.py), and the link checker with its cache (debrid.py).       *)
(***************************************************************************)
EXTENDS Integers, Sequences, FiniteSets, TLC

\* ------------------------------------------------------------------ bounds

\* Largest clock value reached when the clock advances one second at a time.
MaxTime == 1
\* How many times the clock may jump by a whole default TTL of the search cache.
MaxSleeps == 1

\* Worker threads (Flask request threads / direct callers).
Threads == {"t1", "t2"}
\* Callers racing on the request guard.
GuardThreads == {"t1", "t2", "t3"}
\* Cache keys (values of generate_cache_key).
Keys == {"k1", "k2"}
\* Explicit ttl arguments passed to TTLCache.set, in seconds.
TTLs == {1}

\* ------------------------------------------------------- Python objects

\* Python's None.
None == [type |-> "NoneType"]
\* Opaque payloads stored by direct callers of the cache.
Values == {[type |-> "str", v |-> "v1"], [type |-> "str", v |-> "v2"]}
\* No thread: an unlocked threading.Lock.
NoThread == "nobody"

\* ------------------------------------------------------ cache instances

\* search_cache = TTLCache(name="SearchCache", default_ttl=60)
search_cache_default_ttl == 60
\* debrid_cache = TTLCache(name="DebridCache", default_ttl=300)
debrid_cache_default_ttl == 300

\* The module-level TTLCache instances, by name.
Instances == {"SearchCache", "DebridCache"}

\* self.default_ttl of an instance.
default_ttl(self) ==
    IF self = "SearchCache" THEN search_cache_default_ttl
    ELSE debrid_cache_default_ttl

\* ------------------------------------------------------------------ state

VARIABLES
    now,              \* time.time(), in seconds
    cache,            \* cache[self]: the dict self._cache of a TTLCache (key -> (value, expires_at))
    cache_lock,       \* cache_lock[self]: the thread holding self._lock of a TTLCache
    active_requests,  \* search_guard._active_requests
    guard_lock,       \* the thread holding search_guard._lock
    th,               \* th[t]: the method call thread t is executing, and its locals
    req,              \* req[t]: the /search request thread t is handling
    nosweep,          \* history: the dicts as they would be had clear_expired never run
    last_set,         \* history: per key, the entry of the last set since the last clear_all
    granted,          \* history: per key, acquire calls that returned True since the last release
    denied,           \* history: per key, whether an acquire returned False since the last release
    call,             \* the call of the key builder under examination: function, arguments, result
    runtime_config,   \* config.runtime_config
    cfg_th,           \* cfg_th[w]: the /config or /test-login request worker w is handling
    login_passed,     \* history: whether a login test has succeeded
    sb_instance,      \* driver_sb._sb_instance
    driver_lock,      \* the thread holding driver_sb._driver_lock
    open_drivers,     \* the driver instances created and not closed
    created,          \* history: the number of driver instances created
    dth,              \* dth[t]: where thread t is in a search or in close_driver, and its driver
    dbr,              \* the call of check_links_and_get_filenames in progress, and its locals
    api_key           \* whether config.ALLDEBRID_API_KEY is set

\* The driver singleton.
drv == <<sb_instance, driver_lock, open_drivers, created, dth>>

\* The link checker.
deb == <<dbr, api_key>>

\* The state of the service around the cache layer.
svc == <<runtime_config, cfg_th, login_passed, drv, deb>>

vars == <<now, cache, cache_lock, active_requests, guard_lock, th, req,
          nosweep, last_set, granted, denied, call, svc>>

\* A thread that is in no method: pc, the method last called, its key and
\* its return value (the other locals are dead).
Idle == [pc |-> "idle", op |-> "none", self |-> "none", key |-> "none",
         value |-> None, ttl |-> {}, t |-> 0, expires_at |-> 0,
         entry |-> None, ret |-> None]

\* A thread handling no request.
NoRequest == [hpc |-> "none", cache_key |-> "none", result |-> None,
              status |-> 0, acquired |-> FALSE, releases |-> 0]

\* `_sb_instance = None`: no driver; the drivers created are numbered from 1.
NoDriver == 0

\* An empty dict of strings.
NoLinks == [k \in {} |-> ""]

\* No call of check_links_and_get_filenames in progress: the locals of the
\* function, what the call has looked up (hits) and checked outside
\* (external), and the tuple returned.
NoCheck ==
    [pc |-> "idle", links |-> NoLinks, chunk_size |-> 0, todo |-> {},
     cached_available |-> NoLinks, cached_filenames |-> NoLinks, uncached |-> <<>>,
     chunks |-> <<>>, posted |-> {}, done |-> {},
     all_available |-> NoLinks, all_filenames |-> NoLinks, failed |-> {},
     fallback |-> {}, checked |-> [k \in {} |-> FALSE],
     hits |-> [k \in {} |-> [hit |-> FALSE, is_available |-> FALSE]], external |-> {},
     ret |-> [available_links |-> NoLinks, exact_filenames |-> NoLinks]]

\* Drivers a run may create.
MaxDrivers == 2

\* `runtime_config` as config.py creates it.
InitialConfig == [enabled |-> FALSE, email |-> "", password |-> "", authenticated |-> FALSE]

\* A worker handling no /config or /test-login request; `ret` is the status
\* and body of its last response.
NoConfigRequest == [pc |-> "idle", route |-> "none", data |-> [enabled |-> {}, email |-> {}, password |-> {}],
                    email |-> "", password |-> "", success |-> FALSE,
                    ret |-> [status |-> 0]]

\* No key-builder call made yet.
NoCall == [fn |-> "none"]

\* The empty dict.
EmptyDict == [k \in {} |-> None]

\* The frame of a thread whose method call in frame f raised exception `exc`:
\* the call never returns.
Raised(f, exc) ==
    [Idle EXCEPT !.pc = "raised", !.op = f.op, !.self = f.self, !.key = f.key,
                 !.ret = [type |-> exc]]

\* The frame of a thread that returned `ret` from the method in frame f.
Returned(f, ret) == [Idle EXCEPT !.op = f.op, !.self = f.self, !.key = f.key, !.ret = ret]

\* ---------------------------------------------------------- threading.Lock

\* Mutant: a method body that runs without waiting for the lock.
lock_ignored(lock) == TRUE

\* `with self._lock:` blocks until the lock is free.
lock_free(lock) == lock = NoThread

\* ------------------------------------------------------------------ TTLCache

\* Mutant: an entry still counts as fresh at the instant it expires.
is_fresh_inclusive(time, expires_at) == time <= expires_at

\* `time.time() < expires_at` (cache hit condition of get).
is_fresh(time, expires_at) == time < expires_at

\* `del self._cache[key]`.
dict_del(d, key) == [k \in DOMAIN d \ {key} |-> d[k]]

\* `self._cache[key] = (value, expires_at)`.
dict_put(d, key, value, expires_at) ==
    [k \in DOMAIN d \cup {key} |->
        IF k = key THEN [value |-> value, expires_at |-> expires_at] ELSE d[k]]

\* Mutant: the ttl argument is ignored.
effective_ttl_default(self, ttl) == default_ttl(self)

\* `if ttl is None: ttl = self.default_ttl`; the optional argument is the
\* set of the values passed (empty when omitted).
effective_ttl(self, ttl) == IF ttl = {} THEN default_ttl(self) ELSE CHOOSE x \in ttl : TRUE

\* `expires_at = time.time() + ttl`.
expiry(time, ttl) == time + ttl

\* Mutant: an entry expiring exactly at the call time is kept.
expired_keys_strict(d, time) == {k \in DOMAIN d : time > d[k].expires_at}

\* Mutant: the sweep takes every entry for expired.
expired_keys_all(d, time) == DOMAIN d

\* `expired_keys = [k for k, (_, exp) in self._cache.items() if now >= exp]`.
expired_keys(d, time) == {k \in DOMAIN d : time >= d[k].expires_at}

\* `for key in expired_keys: del self._cache[key]`.
dict_del_all(d, ks) == [k \in DOMAIN d \ ks |-> d[k]]

\* Mutant: counts the distinct stored entries instead of the keys.
dict_len_distinct(d) == Cardinality({d[k] : k \in DOMAIN d})

\* `len(self._cache)`.
dict_len(d) == Cardinality(DOMAIN d)

\* Mutant: one dict shared by every instance (a class attribute).
own_dict_shared(c, self, d) == [i \in DOMAIN c |-> d]

\* `self._cache` is the instance's own dict, created in __init__: a change of
\* it to d is a change of the dict of `self` alone.
own_dict(c, self, d) == [c EXCEPT ![self] = d]

\* What get would return from dict d at `time`, and the dict it would leave
\* (used for the history dict, which sees the same gets and sets).
lazy_get(d, key, time) ==
    IF key \in DOMAIN d
    THEN IF is_fresh(time, d[key].expires_at)
         THEN [ret |-> d[key].value, dict |-> d]
         ELSE [ret |-> None, dict |-> dict_del(d, key)]
    ELSE [ret |-> None, dict |-> d]

\* What every cache step leaves alone.
CacheFrame == UNCHANGED <<now, active_requests, guard_lock, granted, denied, call, svc>>

\* TTLCache.get, entry: `with self._lock:`.
get_enter(t, self, key) ==
    /\ th[t].pc = "idle"
    /\ lock_free(cache_lock[self])
    /\ cache_lock' = [cache_lock EXCEPT ![self] = t]
    /\ th' = [th EXCEPT ![t] = [Idle EXCEPT !.pc = "get_check", !.op = "get",
                                            !.self = self, !.key = key]]
    /\ UNCHANGED <<cache, nosweep, last_set>>
    /\ CacheFrame

\* TTLCache.get: `if key in self._cache:` ... `if time.time() < expires_at: return value`,
\* else on to the removal; `return None` when the key is absent.
get_check(t) ==
    LET f == th[t]
        d == cache[f.self]
        shadow == lazy_get(nosweep[f.self], f.key, now)
    IN
    /\ f.pc = "get_check"
    /\ nosweep' = [nosweep EXCEPT ![f.self] = shadow.dict]
    /\ IF f.key \in DOMAIN d
       THEN IF is_fresh(now, d[f.key].expires_at)
            THEN /\ th' = [th EXCEPT ![t] = Returned(f, d[f.key].value)]
                 /\ cache_lock' = [cache_lock EXCEPT ![f.self] = NoThread]
            ELSE /\ th' = [th EXCEPT ![t].pc = "get_del", ![t].entry = d[f.key], ![t].t = now]
                 /\ UNCHANGED cache_lock
       ELSE /\ th' = [th EXCEPT ![t] = Returned(f, None)]
            /\ cache_lock' = [cache_lock EXCEPT ![f.self] = NoThread]
    /\ UNCHANGED <<cache, last_set>>
    /\ CacheFrame

\* TTLCache.get: `del self._cache[key]`, then `return None` (leaving the lock).
\* `del` raises KeyError when the key is no longer in the dict; the exception
\* leaves the `with` block, which frees the lock.
get_del(t) ==
    LET f == th[t] IN
    /\ f.pc = "get_del"
    /\ cache' = own_dict(cache, f.self, dict_del(cache[f.self], f.key))
    /\ cache_lock' = [cache_lock EXCEPT ![f.self] = NoThread]
    /\ th' = [th EXCEPT ![t] = IF f.key \in DOMAIN cache[f.self]
                               THEN Returned(f, None)
                               ELSE Raised(f, "KeyError")]
    /\ UNCHANGED <<nosweep, last_set>>
    /\ CacheFrame

\* TTLCache.set, before the lock: the default ttl and `expires_at = time.time() + ttl`.
set_enter(t, self, key, value, ttl) ==
    /\ th[t].pc = "idle"
    /\ th' = [th EXCEPT ![t] = [Idle EXCEPT !.pc = "set_write", !.op = "set",
                                            !.self = self, !.key = key, !.value = value,
                                            !.ttl = ttl, !.t = now,
                                            !.expires_at = expiry(now, effective_ttl(self, ttl))]]
    /\ UNCHANGED <<cache, cache_lock, nosweep, last_set>>
    /\ CacheFrame

\* TTLCache.set: `with self._lock: self._cache[key] = (value, expires_at)`.
set_write(t) ==
    LET f == th[t] IN
    /\ f.pc = "set_write"
    /\ lock_free(cache_lock[f.self])
    /\ cache' = own_dict(cache, f.self, dict_put(cache[f.self], f.key, f.value, f.expires_at))
    /\ nosweep' = [nosweep EXCEPT ![f.self] = dict_put(@, f.key, f.value, f.expires_at)]
    /\ last_set' = [last_set EXCEPT ![f.self] = dict_put(@, f.key, f.value, f.expires_at)]
    /\ th' = [th EXCEPT ![t] = Returned(f, None)]
    /\ UNCHANGED cache_lock
    /\ CacheFrame

\* TTLCache.clear_expired, before the lock: `now = time.time()`.
clear_expired_enter(t, self) ==
    /\ th[t].pc = "idle"
    /\ th' = [th EXCEPT ![t] = [Idle EXCEPT !.pc = "clear_expired", !.op = "clear_expired",
                                            !.self = self, !.t = now]]
    /\ UNCHANGED <<cache, cache_lock, nosweep, last_set>>
    /\ CacheFrame

\* TTLCache.clear_expired: under the lock, collect the expired keys and delete them.
clear_expired_sweep(t) ==
    LET f == th[t] IN
    /\ f.pc = "clear_expired"
    /\ lock_free(cache_lock[f.self])
    /\ cache' = own_dict(cache, f.self,
                       dict_del_all(cache[f.self], expired_keys(cache[f.self], f.t)))
    /\ th' = [th EXCEPT ![t] = Returned(f, None)]
    /\ UNCHANGED <<cache_lock, nosweep, last_set>>
    /\ CacheFrame

\* TTLCache.clear_all, entry: `with self._lock:`.
clear_all_enter(t, self) ==
    /\ th[t].pc = "idle"
    /\ lock_free(cache_lock[self])
    /\ cache_lock' = [cache_lock EXCEPT ![self] = t]
    /\ th' = [th EXCEPT ![t] = [Idle EXCEPT !.pc = "clear_all", !.op = "clear_all",
                                            !.self = self]]
    /\ UNCHANGED <<cache, nosweep, last_set>>
    /\ CacheFrame

\* TTLCache.clear_all: `self._cache.clear()`.
clear_all_clear(t) ==
    LET f == th[t] IN
    /\ f.pc = "clear_all"
    /\ cache' = own_dict(cache, f.self, EmptyDict)
    /\ nosweep' = [nosweep EXCEPT ![f.self] = EmptyDict]
    /\ last_set' = [last_set EXCEPT ![f.self] = EmptyDict]
    /\ cache_lock' = [cache_lock EXCEPT ![f.self] = NoThread]
    /\ th' = [th EXCEPT ![t] = Returned(f, None)]
    /\ CacheFrame

\* TTLCache.size, entry: `with self._lock:`.
size_enter(t, self) ==
    /\ th[t].pc = "idle"
    /\ lock_free(cache_lock[self])
    /\ cache_lock' = [cache_lock EXCEPT ![self] = t]
    /\ th' = [th EXCEPT ![t] = [Idle EXCEPT !.pc = "size", !.op = "size", !.self = self]]
    /\ UNCHANGED <<cache, nosweep, last_set>>
    /\ CacheFrame

\* TTLCache.size: `return len(self._cache)` (the frame keeps the time of the call).
size_len(t) ==
    LET f == th[t] IN
    /\ f.pc = "size"
    /\ cache_lock' = [cache_lock EXCEPT ![f.self] = NoThread]
    /\ th' = [th EXCEPT ![t] = [Returned(f, dict_len(cache[f.self])) EXCEPT !.t = now]]
    /\ UNCHANGED <<cache, nosweep, last_set>>
    /\ CacheFrame

\* -------------------------------------------------------------- RequestGuard

\* Mutant: acquire never sees the key as held.
is_active_never(active, key) == FALSE

\* `key in self._active_requests`.
is_active(active, key) == key \in active

\* Mutant: acquire reports success without recording the key.
set_add_lost(active, key) == active

\* `self._active_requests.add(key)`.
set_add(active, key) == active \cup {key}

\* Mutant: release empties the whole set.
set_discard_all(active, key) == {}

\* Mutant: release leaves the key in the set.
set_discard_lost(active, key) == active

\* `if key in self._active_requests: self._active_requests.discard(key)`.
set_discard(active, key) == IF key \in active THEN active \ {key} ELSE active

\* History counter of successful acquires, saturating at 2.
Bump(n) == IF n < 2 THEN n + 1 ELSE n

\* What every guard step leaves alone.
GuardFrame == UNCHANGED <<now, cache, cache_lock, nosweep, last_set, call, svc>>

\* RequestGuard.acquire, entry: `with self._lock:`.
acquire_enter(t, key) ==
    /\ th[t].pc = "idle"
    /\ lock_free(guard_lock)
    /\ guard_lock' = t
    /\ th' = [th EXCEPT ![t] = [Idle EXCEPT !.pc = "acquire_check", !.op = "acquire",
                                            !.self = "SearchGuard", !.key = key]]
    /\ UNCHANGED <<active_requests, granted, denied>>
    /\ GuardFrame

\* RequestGuard.acquire: `if key in self._active_requests: return False`.
acquire_check(t) ==
    LET f == th[t] IN
    /\ f.pc = "acquire_check"
    /\ IF is_active(active_requests, f.key)
       THEN /\ th' = [th EXCEPT ![t] = Returned(f, FALSE)]
            /\ guard_lock' = NoThread
            /\ denied' = [denied EXCEPT ![f.key] = TRUE]
       ELSE /\ th' = [th EXCEPT ![t].pc = "acquire_add"]
            /\ UNCHANGED <<guard_lock, denied>>
    /\ UNCHANGED <<active_requests, granted>>
    /\ GuardFrame

\* RequestGuard.acquire: `self._active_requests.add(key)`, `return True`.
acquire_add(t) ==
    LET f == th[t] IN
    /\ f.pc = "acquire_add"
    /\ active_requests' = set_add(active_requests, f.key)
    /\ guard_lock' = NoThread
    /\ th' = [th EXCEPT ![t] = Returned(f, TRUE)]
    /\ granted' = [granted EXCEPT ![f.key] = Bump(@)]
    /\ UNCHANGED denied
    /\ GuardFrame

\* RequestGuard.release, entry: `with self._lock:`.
release_enter(t, key) ==
    /\ th[t].pc = "idle"
    /\ lock_free(guard_lock)
    /\ guard_lock' = t
    /\ th' = [th EXCEPT ![t] = [Idle EXCEPT !.pc = "release_discard", !.op = "release",
                                            !.self = "SearchGuard", !.key = key]]
    /\ UNCHANGED <<active_requests, granted, denied>>
    /\ GuardFrame

\* RequestGuard.release: `if key in self._active_requests: ...discard(key)`.
release_discard(t) ==
    LET f == th[t] IN
    /\ f.pc = "release_discard"
    /\ active_requests' = set_discard(active_requests, f.key)
    /\ guard_lock' = NoThread
    /\ th' = [th EXCEPT ![t] = Returned(f, None)]
    /\ granted' = [granted EXCEPT ![f.key] = 0]
    /\ denied' = [denied EXCEPT ![f.key] = FALSE]
    /\ GuardFrame

\* RequestGuard.is_locked: `with self._lock: return key in self._active_requests`.
is_locked(t, key) ==
    /\ th[t].pc = "idle"
    /\ lock_free(guard_lock)
    /\ th' = [th EXCEPT ![t] = [Idle EXCEPT !.op = "is_locked", !.self = "SearchGuard",
                                            !.key = key,
                                            !.ret = is_active(active_requests, key)]]
    /\ UNCHANGED <<active_requests, guard_lock, granted, denied>>
    /\ GuardFrame

\* ------------------------------------------------------------------ clock

\* One second passes.
Tick ==
    /\ now < MaxTime
    /\ now' = now + 1
    /\ UNCHANGED <<cache, cache_lock, active_requests, guard_lock, th, req,
                   nosweep, last_set, granted, denied, call, svc>>

\* ------------------------------------------------- direct callers of the guard

InitCore ==
    /\ now = 0
    /\ cache = [c \in Instances |-> EmptyDict]
    /\ cache_lock = [c \in Instances |-> NoThread]
    /\ active_requests = {}
    /\ guard_lock = NoThread
    /\ nosweep = [c \in Instances |-> EmptyDict]
    /\ last_set = [c \in Instances |-> EmptyDict]
    /\ granted = [k \in Keys |-> 0]
    /\ denied = [k \in Keys |-> FALSE]
    /\ call = NoCall

\* No configuration request is handled: runtime_config keeps its initial value.
InitNoConfig ==
    /\ runtime_config = InitialConfig
    /\ cfg_th = [w \in {} |-> NoConfigRequest]
    /\ login_passed = FALSE

\* No search uses the driver.
InitNoDriver ==
    /\ sb_instance = NoDriver
    /\ driver_lock = NoThread
    /\ open_drivers = {}
    /\ created = 0
    /\ dth = [t \in {} |-> [pc |-> "idle", sb |-> NoDriver]]

\* No link is checked.
InitNoDebrid ==
    /\ dbr = NoCheck
    /\ api_key = FALSE

InitCommon ==
    /\ InitCore
    /\ InitNoConfig
    /\ InitNoDriver
    /\ InitNoDebrid

InitGuard ==
    /\ InitCommon
    /\ th = [t \in GuardThreads |-> Idle]
    /\ req = [t \in GuardThreads |-> NoRequest]

CallAcquire == \E t \in DOMAIN th, key \in Keys : acquire_enter(t, key) /\ UNCHANGED req
AcquireCheck == \E t \in DOMAIN th : acquire_check(t) /\ UNCHANGED req
AcquireAdd == \E t \in DOMAIN th : acquire_add(t) /\ UNCHANGED req
CallRelease == \E t \in DOMAIN th, key \in Keys : release_enter(t, key) /\ UNCHANGED req
ReleaseDiscard == \E t \in DOMAIN th : release_discard(t) /\ UNCHANGED req
CallIsLocked == \E t \in DOMAIN th, key \in Keys : is_locked(t, key) /\ UNCHANGED req

NextGuard ==
    \/ CallAcquire \/ AcquireCheck \/ AcquireAdd
    \/ CallRelease \/ ReleaseDiscard
    \/ CallIsLocked

SpecGuard == InitGuard /\ [][NextGuard]_vars

\* ------------------------------------------------- direct callers of a cache

InitCache ==
    /\ InitCommon
    /\ th = [t \in Threads |-> Idle]
    /\ req = [t \in Threads |-> NoRequest]

\* The instance the direct callers use.
CacheUnderTest == "SearchCache"

CallGet == \E t \in DOMAIN th, key \in Keys : get_enter(t, CacheUnderTest, key) /\ UNCHANGED req
GetCheck == \E t \in DOMAIN th : get_check(t) /\ UNCHANGED req
GetDel == \E t \in DOMAIN th : get_del(t) /\ UNCHANGED req
CallSet ==
    \E t \in DOMAIN th, key \in Keys, value \in Values, ttl \in {{}} \cup {{x} : x \in TTLs} :
        set_enter(t, CacheUnderTest, key, value, ttl) /\ UNCHANGED req
SetWrite == \E t \in DOMAIN th : set_write(t) /\ UNCHANGED req
CallClearExpired == \E t \in DOMAIN th : clear_expired_enter(t, CacheUnderTest) /\ UNCHANGED req
ClearExpiredSweep == \E t \in DOMAIN th : clear_expired_sweep(t) /\ UNCHANGED req
CallClearAll == \E t \in DOMAIN th : clear_all_enter(t, CacheUnderTest) /\ UNCHANGED req
ClearAllClear == \E t \in DOMAIN th : clear_all_clear(t) /\ UNCHANGED req
CallSize == \E t \in DOMAIN th : size_enter(t, CacheUnderTest) /\ UNCHANGED req
SizeLen == \E t \in DOMAIN th : size_len(t) /\ UNCHANGED req

NextCache ==
    \/ CallGet \/ GetCheck \/ GetDel
    \/ CallSet \/ SetWrite
    \/ CallClearExpired \/ ClearExpiredSweep
    \/ CallClearAll \/ ClearAllClear
    \/ CallSize \/ SizeLen
    \/ Tick

SpecCache == InitCache /\ [][NextCache]_vars

\* ------------------------------- direct callers of the cache and the guard

\* Keys that callers store under; the other keys are only looked up.
SetKeys == {"k1"}

InitApi ==
    /\ InitCommon
    /\ th = [t \in Threads |-> Idle]
    /\ req = [t \in Threads |-> NoRequest]

\* set(key, value, ttl) on a stored key with an explicit ttl.
ApiSet ==
    \E t \in DOMAIN th, key \in SetKeys, ttl \in {{x} : x \in TTLs} :
        set_enter(t, CacheUnderTest, key, CHOOSE v \in Values : TRUE, ttl) /\ UNCHANGED req

NextApi ==
    \/ CallGet \/ GetCheck \/ GetDel
    \/ ApiSet \/ SetWrite
    \/ CallClearExpired \/ ClearExpiredSweep
    \/ CallClearAll \/ ClearAllClear
    \/ CallSize \/ SizeLen
    \/ CallAcquire \/ AcquireCheck \/ AcquireAdd
    \/ CallRelease \/ ReleaseDiscard
    \/ CallIsLocked
    \/ Tick

SpecApi == InitApi /\ [][NextApi]_vars

\* ------------------------------------------ callers of both cache instances

\* The one key string used with both instances.
SharedKey == "k1"

\* What callers store in an instance: a payload of its own.
payload(self) == [type |-> "str", v |-> IF self = "SearchCache" THEN "v1" ELSE "v2"]

InitInstances ==
    /\ InitCommon
    /\ th = [t \in Threads |-> Idle]
    /\ req = [t \in Threads |-> NoRequest]

InstGet ==
    \E t \in DOMAIN th, self \in Instances : get_enter(t, self, SharedKey) /\ UNCHANGED req
InstSet ==
    \E t \in DOMAIN th, self \in Instances, ttl \in {{}} \cup {{x} : x \in TTLs} :
        set_enter(t, self, SharedKey, payload(self), ttl) /\ UNCHANGED req
InstClearExpired ==
    \E t \in DOMAIN th, self \in Instances : clear_expired_enter(t, self) /\ UNCHANGED req
InstClearAll ==
    \E t \in DOMAIN th, self \in Instances : clear_all_enter(t, self) /\ UNCHANGED req
InstSize ==
    \E t \in DOMAIN th, self \in Instances : size_enter(t, self) /\ UNCHANGED req

NextInstances ==
    \/ InstGet \/ GetCheck \/ GetDel
    \/ InstSet \/ SetWrite
    \/ InstClearExpired \/ ClearExpiredSweep
    \/ InstClearAll \/ ClearAllClear
    \/ InstSize \/ SizeLen
    \/ Tick

SpecInstances == InitInstances /\ [][NextInstances]_vars

\* ------------------------------------------------------- the /search handler

\* Payloads a search can return.
Releases == {"r1"}

\* The dict search_darkiworld returns.
SearchResult(success, releases) == [type |-> "dict", success |-> success, releases |-> releases]

\* Python truthiness of a cached result (`if cached_result:`): None is false,
\* a result dict (never empty) is true.
truthy(obj) == obj /= None

\* Mutant: held keys time out when a cache TTL has passed.
Sleep_guard_times_out ==
    /\ now + search_cache_default_ttl <= MaxSleeps * search_cache_default_ttl
    /\ now' = now + search_cache_default_ttl
    /\ active_requests' = {}
    /\ UNCHANGED <<cache, cache_lock, guard_lock, th, req,
                   nosweep, last_set, granted, denied, call, svc>>

\* The clock jumps by the search cache's default TTL (a Sonarr retry, later).
Sleep ==
    /\ now + search_cache_default_ttl <= MaxSleeps * search_cache_default_ttl
    /\ now' = now + search_cache_default_ttl
    /\ UNCHANGED <<cache, cache_lock, active_requests, guard_lock, th, req,
                   nosweep, last_set, granted, denied, call, svc>>

\* search(): a request arrives, passes validation, its cache key is generated
\* and `search_cache.get(cache_key)` is called.
search_begin(t, cache_key) ==
    /\ req[t].hpc \in {"none", "done"}
    /\ get_enter(t, "SearchCache", cache_key)
    /\ req' = [req EXCEPT ![t] = [NoRequest EXCEPT !.hpc = "get", !.cache_key = cache_key]]

\* search(): `if cached_result: return jsonify(cached_result), 200`.
search_cache_hit(t) ==
    /\ req[t].hpc = "get"
    /\ th[t].pc = "idle"
    /\ truthy(th[t].ret)
    /\ req' = [req EXCEPT ![t].hpc = "done", ![t].result = th[t].ret, ![t].status = 200]
    /\ UNCHANGED <<now, cache, cache_lock, active_requests, guard_lock, th,
                   nosweep, last_set, granted, denied, call, svc>>

\* Mutant: the handler goes on whatever acquire returned.
refused_never(ret) == FALSE

\* `if not search_guard.acquire(cache_key):` the duplicate-request branch.
refused(ret) == ret = FALSE

\* search(): on a miss, `search_guard.acquire(cache_key)` is called.
search_try_acquire(t) ==
    /\ req[t].hpc = "get"
    /\ th[t].pc = "idle"
    /\ ~truthy(th[t].ret)
    /\ acquire_enter(t, req[t].cache_key)
    /\ req' = [req EXCEPT ![t].hpc = "acquire"]

\* search(): `if not search_guard.acquire(cache_key): return ..., 429`.
search_rejected(t) ==
    /\ req[t].hpc = "acquire"
    /\ th[t].pc = "idle"
    /\ refused(th[t].ret)
    /\ req' = [req EXCEPT ![t].hpc = "done", ![t].status = 429]
    /\ UNCHANGED <<now, cache, cache_lock, active_requests, guard_lock, th,
                   nosweep, last_set, granted, denied, call, svc>>

\* search(): the guard was acquired; the `try:` block is entered and
\* search_darkiworld is called.
search_run(t) ==
    /\ req[t].hpc = "acquire"
    /\ th[t].pc = "idle"
    /\ ~refused(th[t].ret)
    /\ req' = [req EXCEPT ![t].hpc = "searching", ![t].acquired = TRUE]
    /\ UNCHANGED <<now, cache, cache_lock, active_requests, guard_lock, th,
                   nosweep, last_set, granted, denied, call, svc>>

\* Mutant: a successful result is answered without being cached.
search_succeeded_uncached(t, releases) ==
    /\ req[t].hpc = "searching"
    /\ req' = [req EXCEPT ![t].hpc = "finally", ![t].result = SearchResult(TRUE, releases),
                          ![t].status = 200]
    /\ UNCHANGED <<now, cache, cache_lock, active_requests, guard_lock, th,
                   nosweep, last_set, granted, denied, call, svc>>

\* search(): search_darkiworld returned a successful result, which is cached:
\* `search_cache.set(cache_key, result)`.
search_succeeded(t, releases) ==
    /\ req[t].hpc = "searching"
    /\ set_enter(t, "SearchCache", req[t].cache_key, SearchResult(TRUE, releases), {})
    /\ req' = [req EXCEPT ![t].hpc = "set", ![t].result = SearchResult(TRUE, releases),
                          ![t].status = 200]

\* Mutant: an unsuccessful result is cached like a successful one.
search_failed_cached(t, releases) ==
    /\ req[t].hpc = "searching"
    /\ set_enter(t, "SearchCache", req[t].cache_key, SearchResult(FALSE, releases), {})
    /\ req' = [req EXCEPT ![t].hpc = "set", ![t].result = SearchResult(FALSE, releases),
                          ![t].status = 400]

\* search(): search_darkiworld returned an unsuccessful result (status 400,
\* nothing cached); control passes to the `finally:` block.
search_failed(t, releases) ==
    /\ req[t].hpc = "searching"
    /\ req' = [req EXCEPT ![t].hpc = "finally", ![t].result = SearchResult(FALSE, releases),
                          ![t].status = 400]
    /\ UNCHANGED <<now, cache, cache_lock, active_requests, guard_lock, th,
                   nosweep, last_set, granted, denied, call, svc>>

\* search(): search_darkiworld (or the code after it) raised; control passes
\* to the `finally:` block and then to `except Exception`, which answers 500.
search_raised(t) ==
    /\ req[t].hpc = "searching"
    /\ req' = [req EXCEPT ![t].hpc = "finally", ![t].status = 500]
    /\ UNCHANGED <<now, cache, cache_lock, active_requests, guard_lock, th,
                   nosweep, last_set, granted, denied, call, svc>>

\* search(): `finally: search_guard.release(cache_key)`.
search_finally(t) ==
    /\ \/ req[t].hpc = "finally"
       \/ req[t].hpc = "set" /\ th[t].pc = "idle"
    /\ release_enter(t, req[t].cache_key)
    /\ req' = [req EXCEPT ![t].hpc = "release", ![t].releases = Bump(@)]

\* search(): the response leaves after the `finally:` block.
search_respond(t) ==
    /\ req[t].hpc = "release"
    /\ th[t].pc = "idle"
    /\ req' = [req EXCEPT ![t].hpc = "done"]
    /\ UNCHANGED <<now, cache, cache_lock, active_requests, guard_lock, th,
                   nosweep, last_set, granted, denied, call, svc>>

InitSearch ==
    /\ InitCommon
    /\ th = [t \in Threads |-> Idle]
    /\ req = [t \in Threads |-> NoRequest]

SearchBegin == \E t \in DOMAIN th, key \in Keys : search_begin(t, key)
SearchCacheHit == \E t \in DOMAIN th : search_cache_hit(t)
SearchTryAcquire == \E t \in DOMAIN th : search_try_acquire(t)
SearchRejected == \E t \in DOMAIN th : search_rejected(t)
SearchRun == \E t \in DOMAIN th : search_run(t)
SearchSucceeded == \E t \in DOMAIN th, r \in Releases : search_succeeded(t, r)
SearchFailed == \E t \in DOMAIN th, r \in Releases : search_failed(t, r)
SearchRaised == \E t \in DOMAIN th : search_raised(t)
SearchFinally == \E t \in DOMAIN th : search_finally(t)
SearchRespond == \E t \in DOMAIN th : search_respond(t)

NextSearch ==
    \/ SearchBegin \/ GetCheck \/ GetDel
    \/ SearchCacheHit \/ SearchTryAcquire
    \/ AcquireCheck \/ AcquireAdd
    \/ SearchRejected \/ SearchRun
    \/ SearchSucceeded \/ SearchFailed \/ SearchRaised
    \/ SetWrite \/ SearchFinally \/ ReleaseDiscard \/ SearchRespond
    \/ Sleep

SpecSearch == InitSearch /\ [][NextSearch]_vars

\* ------------------------------------------------------------------ strings

\* Strings are TLA+ strings; the character of s at position i (1-based).
char_at(s, i) == SubSeq(s, i, i)

\* Whitespace (\s, str.strip).
is_space(c) == c \in {" ", "\t", "\n"}

\* A decimal digit (\d).
is_digit(c) == c \in {"0", "1", "2", "3", "4", "5", "6", "7", "8", "9"}

\* The upper-case letters and their lower-case forms, position by position.
ascii_uppercase == "ABCDEFGHIJKLMNOPQRSTUVWXYZ"
ascii_lowercase == "abcdefghijklmnopqrstuvwxyz"

\* str.lower() of one character.
lower_char(c) ==
    IF \E i \in 1..Len(ascii_uppercase) : char_at(ascii_uppercase, i) = c
    THEN char_at(ascii_lowercase,
                 CHOOSE i \in 1..Len(ascii_uppercase) : char_at(ascii_uppercase, i) = c)
    ELSE c

RECURSIVE lower_from(_, _)
\* str.lower() of s from position i on.
lower_from(s, i) ==
    IF i > Len(s) THEN "" ELSE lower_char(char_at(s, i)) \o lower_from(s, i + 1)

\* str.lower().
lower(s) == lower_from(s, 1)

RECURSIVE lstrip(_)
\* str.lstrip().
lstrip(s) == IF Len(s) > 0 /\ is_space(char_at(s, 1)) THEN lstrip(SubSeq(s, 2, Len(s))) ELSE s

RECURSIVE rstrip(_)
\* str.rstrip().
rstrip(s) ==
    IF Len(s) > 0 /\ is_space(char_at(s, Len(s))) THEN rstrip(SubSeq(s, 1, Len(s) - 1)) ELSE s

\* str.strip().
strip(s) == rstrip(lstrip(s))

\* The decimal digit of a number below ten.
digit_char(n) == char_at("0123456789", n + 1)

RECURSIVE str_nat(_)
\* str(n) for n >= 0.
str_nat(n) == IF n < 10 THEN digit_char(n) ELSE str_nat(n \div 10) \o digit_char(n % 10)

\* str(n) of an int.
str_int(n) == IF n < 0 THEN "-" \o str_nat(0 - n) ELSE str_nat(n)

\* Mutant: the parts are concatenated without the separator.
join_without_separator(sep, parts) ==
    IF Len(parts) = 0 THEN ""
    ELSE LET glue[i \in 1..Len(parts)] == IF i = 1 THEN parts[1] ELSE glue[i - 1] \o parts[i]
         IN glue[Len(parts)]

RECURSIVE join(_, _)
\* sep.join(parts).
join(sep, parts) ==
    IF Len(parts) = 0 THEN ""
    ELSE IF Len(parts) = 1 THEN parts[1]
    ELSE parts[1] \o sep \o join(sep, Tail(parts))

\* ------------------------------------------------------ regular expressions

\* Elements of the patterns of normalize_query: a literal, an alternation of
\* literals, a greedy repetition of a character class, and `$`.
Lit(s) == [type |-> "lit", s |-> s]
Alt(alts) == [type |-> "alt", alts |-> alts]
Rep(class, min, max) == [type |-> "rep", class |-> class, min |-> min, max |-> max]
End == [type |-> "end"]

\* No upper limit on a repetition (`+`, `*`).
Unbounded == 0 - 1

\* `\s+`, `\s*`, `\d+`, `\d{4}`.
Spaces1 == Rep("space", 1, Unbounded)
Spaces0 == Rep("space", 0, Unbounded)
Digits1 == Rep("digit", 1, Unbounded)
Digits4 == Rep("digit", 4, 4)

\* Membership of a character in `\s` or `\d`.
in_class(class, c) == IF class = "space" THEN is_space(c) ELSE is_digit(c)

\* Whether literal l occurs in s at position i, ignoring case (re.IGNORECASE).
lit_at(s, i, l) ==
    /\ i + Len(l) - 1 <= Len(s)
    /\ lower_from(SubSeq(s, i, i + Len(l) - 1), 1) = lower_from(l, 1)

RECURSIVE run_len(_, _, _)
\* Length of the longest run of characters of a class starting at position i.
run_len(s, i, class) ==
    IF i <= Len(s) /\ in_class(class, char_at(s, i)) THEN 1 + run_len(s, i + 1, class) ELSE 0

RECURSIVE match_at(_, _, _, _), match_rep(_, _, _, _, _), match_alt(_, _, _, _, _)
\* Backtracking match of the pattern elements p[j..] at position i of s: the
\* position after the match, or 0 when there is none.  `$` matches at the end
\* of the string and before a final newline.
match_at(p, j, s, i) ==
    IF j > Len(p) THEN i
    ELSE LET e == p[j] IN
         CASE e.type = "lit" ->
                IF lit_at(s, i, e.s) THEN match_at(p, j + 1, s, i + Len(e.s)) ELSE 0
           [] e.type = "alt" -> match_alt(p, j, s, i, 1)
           [] e.type = "end" ->
                IF i = Len(s) + 1 \/ (i = Len(s) /\ char_at(s, i) = "\n")
                THEN match_at(p, j + 1, s, i) ELSE 0
           [] e.type = "rep" ->
                LET n == run_len(s, i, e.class)
                    most == IF e.max = Unbounded \/ n < e.max THEN n ELSE e.max
                IN match_rep(p, j, s, i, most)

\* A greedy repetition: the longest count first, giving back one character at a time.
match_rep(p, j, s, i, k) ==
    IF k < p[j].min THEN 0
    ELSE LET r == match_at(p, j + 1, s, i + k) IN
         IF r /= 0 THEN r ELSE match_rep(p, j, s, i, k - 1)

\* An alternation: its alternatives in order.
match_alt(p, j, s, i, a) ==
    IF a > Len(p[j].alts) THEN 0
    ELSE LET l == p[j].alts[a]
             r == IF lit_at(s, i, l) THEN match_at(p, j + 1, s, i + Len(l)) ELSE 0
         IN IF r /= 0 THEN r ELSE match_alt(p, j, s, i, a + 1)

RECURSIVE sub_from(_, _, _, _)
\* re.sub from position i on: the leftmost match is replaced and the scan
\* resumes after it.
sub_from(p, repl, s, i) ==
    IF i > Len(s) THEN ""
    ELSE LET e == match_at(p, 1, s, i) IN
         IF e > i THEN repl \o sub_from(p, repl, s, e)
         ELSE char_at(s, i) \o sub_from(p, repl, s, i + 1)

\* re.sub(pattern, repl, s).
re_sub(p, repl, s) == sub_from(p, repl, s, 1)

\* ------------------------------------------------------------ key builder

\* `patterns_to_remove`, in the order of the source.
patterns_to_remove == <<
    <<Spaces1, Lit("saison"), Spaces0, Digits1>>,
    <<Spaces1, Lit("season"), Spaces0, Digits1>>,
    <<Spaces1, Lit("s"), Digits1>>,
    <<Spaces1, Digits1, Alt(<<"st", "nd", "rd", "th">>), Spaces1, Lit("season")>>,
    <<Spaces1, Lit("tv"), End>>,
    <<Spaces1, Lit("(tv)"), End>>,
    <<Spaces1, Lit("[tv]"), End>>,
    <<Spaces1, Lit("serie"), End>>,
    <<Spaces1, Lit("series"), End>>,
    <<Spaces1, Lit("the"), Spaces1, Lit("series"), End>>,
    <<Spaces1, Lit("anime"), End>>,
    <<Spaces1, Lit("vostfr"), End>>,
    <<Spaces1, Lit("vf"), End>>,
    <<Spaces1, Lit("french"), End>>,
    <<Spaces1, Lit("multi"), End>>,
    <<Spaces1, Lit("("), Digits4, Lit(")"), End>>,
    <<Spaces1, Lit("["), Digits4, Lit("]"), End>>,
    <<Spaces1, Digits4, End>> >>

RECURSIVE remove_patterns(_, _, _)
\* `for pattern in patterns_to_remove: normalized = re.sub(pattern, '', normalized, ...)`,
\* from the n-th pattern on.
remove_patterns(ps, n, s) ==
    IF n > Len(ps) THEN s ELSE remove_patterns(ps, n + 1, re_sub(ps[n], "", s))

\* normalize_query(query, season).  The season argument is an optional int
\* (the set of the values passed); the body never reads it.
normalize_query(query, season) ==
    IF query = "" THEN ""
    ELSE strip(re_sub(<<Spaces1>>, " ",
                      remove_patterns(patterns_to_remove, 1, lower(strip(query)))))

\* `parts = [normalized, media_type]`, then str(season) and str(episode) when
\* they are not None.
key_parts(normalized, media_type, season, episode) ==
    <<normalized, media_type>>
        \o (IF season /= {} THEN <<str_int(CHOOSE x \in season : TRUE)>> ELSE <<>>)
        \o (IF episode /= {} THEN <<str_int(CHOOSE x \in episode : TRUE)>> ELSE <<>>)

\* generate_cache_key(query, media_type, season, episode).
generate_cache_key(query, media_type, season, episode) ==
    join("|", key_parts(normalize_query(query, season), media_type, season, episode))

\* ----------------------------------------- callers of normalize_query

\* How many recognized suffixes a query carries at most.
MaxSuffixes == 2

\* Titles searched for: plain, with upper case and untidy spacing, and with
\* the key delimiter in it.
Titles == {"foo", " Foo  Bar", "a|b"}

\* One spelling of every suffix the patterns recognize.
Suffixes ==
    {"Saison 1", "Season 2", "S01", "2nd Season",
     "TV", "(TV)", "[TV]", "Serie", "Series", "The Series", "Anime", "VOSTFR", "VF",
     "French", "Multi", "(2023)", "[2023]", "2023"}

\* Season arguments: omitted, or a number.
Seasons == {{}, {1}}

\* The frame every key-builder call leaves alone: the caches, the guard and
\* the threads.
KeyFrame ==
    UNCHANGED <<now, cache, cache_lock, active_requests, guard_lock, th, req,
                nosweep, last_set, granted, denied, svc>>

\* A request's call `normalize_query(query, season_int)` on a title.
NormalizeTitle ==
    /\ call.fn = "none"
    /\ \E title \in Titles, season \in Seasons :
          call' = [fn |-> "normalize_query", how |-> "title", query |-> title,
                   season |-> season, ret |-> normalize_query(title, season),
                   suffixes |-> 0]
    /\ KeyFrame

\* The next request: the query of the last one with one more recognized suffix
\* appended, the season unchanged.  The record keeps the last query and its
\* result.
NormalizeWithSuffix ==
    /\ call.fn = "normalize_query"
    /\ call.how \in {"title", "suffixed"}
    /\ call.suffixes < MaxSuffixes
    /\ \E x \in Suffixes :
          call' = [fn |-> "normalize_query", how |-> "suffixed",
                   query |-> call.query \o " " \o x, season |-> call.season,
                   ret |-> normalize_query(call.query \o " " \o x, call.season),
                   suffixes |-> call.suffixes + 1,
                   base |-> call.query, suffix |-> x, base_ret |-> call.ret]
    /\ KeyFrame

\* normalize_query applied to its own result, the season unchanged.
NormalizeAgain ==
    /\ call.fn = "normalize_query"
    /\ call.how \in {"title", "suffixed"}
    /\ call' = [fn |-> "normalize_query", how |-> "again", query |-> call.ret,
                season |-> call.season, ret |-> normalize_query(call.ret, call.season),
                suffixes |-> call.suffixes, original |-> call.query]
    /\ KeyFrame

InitNormalize ==
    /\ InitCommon
    /\ th = [t \in {} |-> Idle]
    /\ req = [t \in {} |-> NoRequest]

NextNormalize == NormalizeTitle \/ NormalizeWithSuffix \/ NormalizeAgain

SpecNormalize == InitNormalize /\ [][NextNormalize]_vars

\* --------------------------------------- callers of generate_cache_key

\* Queries, media types, seasons and episodes of the requests whose keys are
\* compared.
KeyQueries == {"foo", "Foo TV", "a|b", "a|b Multi", "x | y (2023)"}
MediaTypes == {"movie", "series"}
KeySeasons == {{}, {1}, {12}}
Episodes == {{}, {1}, {2}}

\* A request's call `generate_cache_key(query, media_type, season_int, ep_int)`.
GenerateKey ==
    /\ call.fn = "none"
    /\ \E query \in KeyQueries, media_type \in MediaTypes,
          season \in KeySeasons, episode \in Episodes :
          call' = [fn |-> "generate_cache_key", how |-> "first", query |-> query,
                   media_type |-> media_type, season |-> season, episode |-> episode,
                   ret |-> generate_cache_key(query, media_type, season, episode)]
    /\ KeyFrame

\* The next request: the same query text with a media type, season and episode
\* of its own.  The record keeps the arguments and the key of the first.
GenerateSecondKey ==
    /\ call.fn = "generate_cache_key"
    /\ call.how = "first"
    /\ \E media_type \in MediaTypes, season \in KeySeasons, episode \in Episodes :
          call' = [fn |-> "generate_cache_key", how |-> "second", query |-> call.query,
                   media_type |-> media_type, season |-> season, episode |-> episode,
                   ret |-> generate_cache_key(call.query, media_type, season, episode),
                   first |-> [media_type |-> call.media_type, season |-> call.season,
                              episode |-> call.episode, ret |-> call.ret]]
    /\ KeyFrame

InitKey ==
    /\ InitCommon
    /\ th = [t \in {} |-> Idle]
    /\ req = [t \in {} |-> NoRequest]

NextKey == GenerateKey \/ GenerateSecondKey

SpecKey == InitKey /\ [][NextKey]_vars

\* ------------------------------------------------------ runtime configuration

\* JSON values of a request body: booleans and strings.
JBool(b) == [type |-> "bool", b |-> b, s |-> ""]
JStr(s) == [type |-> "str", b |-> FALSE, s |-> s]

\* bool(x) of a JSON value: a boolean is itself, a string is true unless empty.
bool(x) == IF x.type = "bool" THEN x.b ELSE x.s /= ""

\* A request body: for each key the set of its values, empty when the key is
\* absent.
EmptyBody == [enabled |-> {}, email |-> {}, password |-> {}]

\* `key in data` and `data[key]`.
has_key(data, key) == data[key] /= {}
item(data, key) == CHOOSE x \in data[key] : TRUE

\* get_runtime_config(include_sensitive): the password itself only for
\* internal use, otherwise whether one is set.
get_runtime_config(config, include_sensitive) ==
    IF include_sensitive
    THEN [enabled |-> config.enabled, email |-> config.email,
          authenticated |-> config.authenticated, password |-> config.password]
    ELSE [enabled |-> config.enabled, email |-> config.email,
          authenticated |-> config.authenticated, has_password |-> config.password /= ""]

\* What the steps of the configuration handlers leave alone.
ConfigFrame ==
    UNCHANGED <<now, cache, cache_lock, active_requests, guard_lock, th, req,
                nosweep, last_set, granted, denied, call, drv, deb>>

\* POST /config: `data = request.get_json() or {}`, update_runtime_config(data) is entered.
set_config_begin(w, data) ==
    /\ cfg_th[w].pc = "idle"
    /\ cfg_th' = [cfg_th EXCEPT ![w] = [NoConfigRequest EXCEPT !.pc = "enabled",
                                                              !.route = "config", !.data = data]]
    /\ UNCHANGED <<runtime_config, login_passed>>
    /\ ConfigFrame

\* update_runtime_config: `if 'enabled' in new_config: runtime_config['enabled'] = bool(...)`.
update_enabled(w) ==
    LET new_config == cfg_th[w].data IN
    /\ cfg_th[w].pc = "enabled"
    /\ runtime_config' = IF has_key(new_config, "enabled")
                         THEN [runtime_config EXCEPT !.enabled = bool(item(new_config, "enabled"))]
                         ELSE runtime_config
    /\ cfg_th' = [cfg_th EXCEPT ![w].pc = "email"]
    /\ UNCHANGED login_passed
    /\ ConfigFrame

\* update_runtime_config: `if 'email' in new_config: runtime_config['email'] = ...`.
update_email(w) ==
    LET new_config == cfg_th[w].data IN
    /\ cfg_th[w].pc = "email"
    /\ runtime_config' = IF has_key(new_config, "email")
                         THEN [runtime_config EXCEPT !.email = item(new_config, "email")]
                         ELSE runtime_config
    /\ cfg_th' = [cfg_th EXCEPT ![w].pc = "password"]
    /\ UNCHANGED login_passed
    /\ ConfigFrame

\* Mutant: a new password keeps the authenticated flag.
with_password_only(config, password) == [config EXCEPT !.password = password]

\* `runtime_config['password'] = ...; runtime_config['authenticated'] = False`.
with_password(config, password) ==
    [config EXCEPT !.password = password, !.authenticated = FALSE]

\* update_runtime_config: `if 'password' in new_config and new_config['password']:`.
update_password(w) ==
    LET new_config == cfg_th[w].data IN
    /\ cfg_th[w].pc = "password"
    /\ runtime_config' = IF has_key(new_config, "password") /\ item(new_config, "password") /= ""
                         THEN with_password(runtime_config, item(new_config, "password"))
                         ELSE runtime_config
    /\ cfg_th' = [cfg_th EXCEPT ![w].pc = "return"]
    /\ UNCHANGED login_passed
    /\ ConfigFrame

\* update_runtime_config: `return get_runtime_config()`; the handler answers
\* 200 with it.
update_return(w) ==
    /\ cfg_th[w].pc = "return"
    /\ cfg_th' = [cfg_th EXCEPT ![w] =
                     [NoConfigRequest EXCEPT !.route = "config",
                          !.ret = [status |-> 200,
                                   body |-> get_runtime_config(runtime_config, FALSE)]]]
    /\ UNCHANGED <<runtime_config, login_passed>>
    /\ ConfigFrame

\* `x or y` on strings.
str_or(x, y) == IF x /= "" THEN x ELSE y

\* data.get(key) of a request body, '' standing for an absent key.
body_get(data, key) == IF has_key(data, key) THEN item(data, key) ELSE ""

\* POST /test-login: the credentials of the body or of runtime_config; 400
\* when either is missing.
test_login_begin(w, data) ==
    LET email == str_or(body_get(data, "email"), runtime_config.email)
        password == str_or(body_get(data, "password"), runtime_config.password)
    IN
    /\ cfg_th[w].pc = "idle"
    /\ cfg_th' = [cfg_th EXCEPT ![w] =
                     IF email = "" \/ password = ""
                     THEN [NoConfigRequest EXCEPT !.route = "test-login",
                                                  !.ret = [status |-> 400]]
                     ELSE [NoConfigRequest EXCEPT !.pc = "store", !.route = "test-login",
                                                  !.data = data, !.email = email,
                                                  !.password = password]]
    /\ UNCHANGED <<runtime_config, login_passed>>
    /\ ConfigFrame

\* POST /test-login: credentials given in the body are stored in runtime_config.
test_login_store(w) ==
    LET data == cfg_th[w].data
        c1 == IF body_get(data, "email") /= ""
              THEN [runtime_config EXCEPT !.email = item(data, "email")] ELSE runtime_config
        c2 == IF body_get(data, "password") /= ""
              THEN [c1 EXCEPT !.password = item(data, "password")] ELSE c1
    IN
    /\ cfg_th[w].pc = "store"
    /\ runtime_config' = c2
    /\ cfg_th' = [cfg_th EXCEPT ![w].pc = "login"]
    /\ UNCHANGED login_passed
    /\ ConfigFrame

\* POST /test-login: `success = login(sb, url, email, password)`; an exception
\* of get_driver or login counts as a failed login.
test_login_attempt(w, success) ==
    /\ cfg_th[w].pc = "login"
    /\ cfg_th' = [cfg_th EXCEPT ![w].pc = "finish", ![w].success = success]
    /\ UNCHANGED <<runtime_config, login_passed>>
    /\ ConfigFrame

\* POST /test-login: set_authenticated(success) and the answer, 200 or 401.
test_login_finish(w) ==
    /\ cfg_th[w].pc = "finish"
    /\ runtime_config' = [runtime_config EXCEPT !.authenticated = cfg_th[w].success]
    /\ login_passed' = (login_passed \/ cfg_th[w].success)
    /\ cfg_th' = [cfg_th EXCEPT ![w] =
                     [NoConfigRequest EXCEPT !.route = "test-login",
                          !.ret = [status |-> IF cfg_th[w].success THEN 200 ELSE 401]]]
    /\ ConfigFrame

\* POST /test-login: an exception outside the login attempt:
\* set_authenticated(False) and 500.
test_login_error(w) ==
    /\ cfg_th[w].pc \in {"store", "login", "finish"}
    /\ runtime_config' = [runtime_config EXCEPT !.authenticated = FALSE]
    /\ cfg_th' = [cfg_th EXCEPT ![w] =
                     [NoConfigRequest EXCEPT !.route = "test-login",
                                             !.ret = [status |-> 500]]]
    /\ UNCHANGED login_passed
    /\ ConfigFrame

\* Workers handling configuration requests.
Workers == {"w1", "w2"}

\* Emails and passwords of request bodies ('' is the empty string).
Emails == {"", "e1"}
Passwords == {"", "pw"}

\* Values of the key enabled: JSON booleans and a string.
EnabledValues == {JBool(TRUE), JBool(FALSE), JStr("false")}

\* An absent key or one of the values.
Optional(S) == {{}} \cup {{x} : x \in S}

\* Bodies of POST /config: any subset of the keys enabled, email, password.
ConfigBodies ==
    [enabled : Optional(EnabledValues), email : Optional(Emails), password : Optional(Passwords)]

\* Bodies of POST /test-login: optional email and password.
LoginBodies == {b \in ConfigBodies : ~has_key(b, "enabled")}

\* The service as constructed: the initial runtime_config, idle workers.
InitConfig ==
    /\ InitCore
    /\ runtime_config = InitialConfig
    /\ cfg_th = [w \in Workers |-> NoConfigRequest]
    /\ login_passed = FALSE
    /\ InitNoDriver
    /\ InitNoDebrid
    /\ th = [t \in {} |-> Idle]
    /\ req = [t \in {} |-> NoRequest]

SetConfigBegin == \E w \in DOMAIN cfg_th, data \in ConfigBodies : set_config_begin(w, data)
UpdateEnabled == \E w \in DOMAIN cfg_th : update_enabled(w)
UpdateEmail == \E w \in DOMAIN cfg_th : update_email(w)
UpdatePassword == \E w \in DOMAIN cfg_th : update_password(w)
UpdateReturn == \E w \in DOMAIN cfg_th : update_return(w)
TestLoginBegin == \E w \in DOMAIN cfg_th, data \in LoginBodies : test_login_begin(w, data)
TestLoginStore == \E w \in DOMAIN cfg_th : test_login_store(w)
TestLoginAttempt == \E w \in DOMAIN cfg_th, success \in BOOLEAN : test_login_attempt(w, success)
TestLoginFinish == \E w \in DOMAIN cfg_th : test_login_finish(w)
TestLoginError == \E w \in DOMAIN cfg_th : test_login_error(w)

NextConfig ==
    \/ SetConfigBegin \/ UpdateEnabled \/ UpdateEmail \/ UpdatePassword \/ UpdateReturn
    \/ TestLoginBegin \/ TestLoginStore \/ TestLoginAttempt \/ TestLoginFinish
    \/ TestLoginError

SpecConfig == InitConfig /\ [][NextConfig]_vars

\* ------------------------------------------------------------- driver singleton

\* What the steps of get_driver and close_driver leave alone.
DriverFrame ==
    UNCHANGED <<now, cache, cache_lock, active_requests, guard_lock, th, req,
                nosweep, last_set, granted, denied, call,
                runtime_config, cfg_th, login_passed, deb>>

\* Mutant: get_driver creates a driver whether one exists or not.
needs_driver_always(instance) == TRUE

\* get_driver: `if _sb_instance is None:`.
needs_driver(instance) == instance = NoDriver

\* A search (search_darkiworld) or login test reaches `sb = get_driver()`.
driver_session_begin(t) ==
    /\ dth[t].pc = "idle"
    /\ created < MaxDrivers
    /\ dth' = [dth EXCEPT ![t].pc = "get_driver"]
    /\ UNCHANGED <<sb_instance, driver_lock, open_drivers, created>>
    /\ DriverFrame

\* get_driver: `with _driver_lock:`.
get_driver_enter(t) ==
    /\ dth[t].pc = "get_driver"
    /\ lock_free(driver_lock)
    /\ driver_lock' = t
    /\ dth' = [dth EXCEPT ![t].pc = "get_check"]
    /\ UNCHANGED <<sb_instance, open_drivers, created>>
    /\ DriverFrame

\* get_driver: `if _sb_instance is None: _sb_instance = SBWrapper()`, a new
\* browser.
get_driver_check(t) ==
    /\ dth[t].pc = "get_check"
    /\ IF needs_driver(sb_instance)
       THEN /\ created' = created + 1
            /\ sb_instance' = created + 1
            /\ open_drivers' = open_drivers \cup {created + 1}
       ELSE UNCHANGED <<sb_instance, open_drivers, created>>
    /\ dth' = [dth EXCEPT ![t].pc = "get_return"]
    /\ UNCHANGED driver_lock
    /\ DriverFrame

\* get_driver: SBWrapper() raises (no browser could be started); the lock is
\* released and the caller goes to its exception handler.
get_driver_raise(t) ==
    /\ dth[t].pc = "get_check"
    /\ needs_driver(sb_instance)
    /\ driver_lock' = NoThread
    /\ dth' = [dth EXCEPT ![t].pc = "finishing"]
    /\ UNCHANGED <<sb_instance, open_drivers, created>>
    /\ DriverFrame

\* get_driver: `return _sb_instance`; the caller works with the instance.
get_driver_return(t) ==
    /\ dth[t].pc = "get_return"
    /\ driver_lock' = NoThread
    /\ dth' = [dth EXCEPT ![t].pc = "using", ![t].sb = sb_instance]
    /\ UNCHANGED <<sb_instance, open_drivers, created>>
    /\ DriverFrame

\* The search or the login test is over (result or exception).
driver_session_end(t) ==
    /\ dth[t].pc = "using"
    /\ dth' = [dth EXCEPT ![t].pc = "finishing", ![t].sb = NoDriver]
    /\ UNCHANGED <<sb_instance, driver_lock, open_drivers, created>>
    /\ DriverFrame

\* `threading.Thread(target=close_driver_async, daemon=True).start()`: the
\* background thread c will call close_driver; the caller returns.
start_close_thread(t, c) ==
    /\ dth[t].pc = "finishing"
    /\ dth[c].pc = "unstarted"
    /\ dth' = [dth EXCEPT ![t].pc = "idle", ![c].pc = "close_driver"]
    /\ UNCHANGED <<sb_instance, driver_lock, open_drivers, created>>
    /\ DriverFrame

\* close_driver: `with _driver_lock:`.
close_driver_enter(c) ==
    /\ dth[c].pc = "close_driver"
    /\ lock_free(driver_lock)
    /\ driver_lock' = c
    /\ dth' = [dth EXCEPT ![c].pc = "close_check"]
    /\ UNCHANGED <<sb_instance, open_drivers, created>>
    /\ DriverFrame

\* close_driver: `if _sb_instance is not None:` the driver is quit and the
\* context manager closed.
close_driver_check(c) ==
    /\ dth[c].pc = "close_check"
    /\ IF sb_instance /= NoDriver
       THEN /\ open_drivers' = open_drivers \ {sb_instance}
            /\ dth' = [dth EXCEPT ![c].pc = "close_clear"]
       ELSE /\ dth' = [dth EXCEPT ![c].pc = "close_exit"]
            /\ UNCHANGED open_drivers
    /\ UNCHANGED <<sb_instance, driver_lock, created>>
    /\ DriverFrame

\* close_driver: `finally: _sb_instance = None`.
close_driver_clear(c) ==
    /\ dth[c].pc = "close_clear"
    /\ sb_instance' = NoDriver
    /\ dth' = [dth EXCEPT ![c].pc = "close_exit"]
    /\ UNCHANGED <<driver_lock, open_drivers, created>>
    /\ DriverFrame

\* close_driver: the end of the `with` block; the background thread is over.
close_driver_exit(c) ==
    /\ dth[c].pc = "close_exit"
    /\ driver_lock' = NoThread
    /\ dth' = [dth EXCEPT ![c].pc = "unstarted"]
    /\ UNCHANGED <<sb_instance, open_drivers, created>>
    /\ DriverFrame

\* Threads running searches or login tests, and the background threads they start.
DriverUsers == {"u1", "u2"}
Closers == {"c1", "c2"}

\* The process as started: no driver, no search, no background thread.
InitDriver ==
    /\ InitCore
    /\ InitNoConfig
    /\ InitNoDebrid
    /\ th = [t \in {} |-> Idle]
    /\ req = [t \in {} |-> NoRequest]
    /\ sb_instance = NoDriver
    /\ driver_lock = NoThread
    /\ open_drivers = {}
    /\ created = 0
    /\ dth = [t \in DriverUsers \cup Closers |->
                 [pc |-> IF t \in DriverUsers THEN "idle" ELSE "unstarted", sb |-> NoDriver]]

DriverSessionBegin == \E t \in DOMAIN dth : driver_session_begin(t)
GetDriverEnter == \E t \in DOMAIN dth : get_driver_enter(t)
GetDriverCheck == \E t \in DOMAIN dth : get_driver_check(t)
GetDriverRaise == \E t \in DOMAIN dth : get_driver_raise(t)
GetDriverReturn == \E t \in DOMAIN dth : get_driver_return(t)
DriverSessionEnd == \E t \in DOMAIN dth : driver_session_end(t)
StartCloseThread == \E t, c \in DOMAIN dth : start_close_thread(t, c)
CloseDriverEnter == \E c \in DOMAIN dth : close_driver_enter(c)
CloseDriverCheck == \E c \in DOMAIN dth : close_driver_check(c)
CloseDriverClear == \E c \in DOMAIN dth : close_driver_clear(c)
CloseDriverExit == \E c \in DOMAIN dth : close_driver_exit(c)

NextDriver ==
    \/ DriverSessionBegin \/ GetDriverEnter \/ GetDriverCheck \/ GetDriverRaise
    \/ GetDriverReturn \/ DriverSessionEnd \/ StartCloseThread
    \/ CloseDriverEnter \/ CloseDriverCheck \/ CloseDriverClear \/ CloseDriverExit

SpecDriver == InitDriver /\ [][NextDriver]_vars

\* ------------------------------------------------- the /search request

\* `data.get('type', 'movie')`; the parameter is the set of its values,
\* empty when absent.
media_type_of(data) == IF data.type = {} THEN "movie" ELSE CHOOSE x \in data.type : TRUE

\* Mutant: no search needs a season.
season_required_never(media_type, season) == FALSE

\* `if media_type in ('series', 'animes') and not season:`.
season_required(media_type, season) == media_type \in {"series", "animes"} /\ season = ""

\* Whether s is a run of decimal digits.
is_decimal(s) == Len(s) > 0 /\ \A i \in 1..Len(s) : is_digit(char_at(s, i))

\* The value of a decimal digit.
digit_value(c) == CHOOSE n \in 0..9 : digit_char(n) = c

RECURSIVE int_digits(_)
\* The number a run of decimal digits denotes.
int_digits(s) ==
    IF Len(s) = 0 THEN 0
    ELSE 10 * int_digits(SubSeq(s, 1, Len(s) - 1)) + digit_value(char_at(s, Len(s)))

\* `int(s) if s else None` raises ValueError unless s, without the
\* surrounding whitespace, is a number.
int_raises(s) == s /= "" /\ ~is_decimal(strip(s))

\* `int(s) if s else None`: the set of the value, empty for None.
optional_int(s) == IF s = "" THEN {} ELSE {int_digits(strip(s))}

RECURSIVE split(_, _)
\* str.split(sep) for a separator of one character.
split(s, sep) ==
    IF \E i \in 1..Len(s) : char_at(s, i) = sep
    THEN LET i == CHOOSE i \in 1..Len(s) :
                      char_at(s, i) = sep /\ \A j \in 1..(i - 1) : char_at(s, j) /= sep
         IN <<SubSeq(s, 1, i - 1)>> \o split(SubSeq(s, i + 1, Len(s)), sep)
    ELSE <<s>>

\* `[h.strip().lower() for h in hosters_str.split(',') if h.strip()] if hosters_str else []`.
parse_hosters(hosters_str) ==
    IF hosters_str = "" THEN <<>>
    ELSE LET kept == SelectSeq(split(hosters_str, ","), LAMBDA h : strip(h) /= "")
         IN [i \in 1..Len(kept) |-> lower(strip(kept[i]))]

\* The checks of search() before the cache is consulted, in their order: the
\* status and error of the rejection, status 0 when the request passes.
validate(enabled, data) ==
    IF ~enabled THEN [status |-> 503, error |-> "DarkiWorld service is disabled"]
    ELSE IF data.name = ""
    THEN [status |-> 400, error |-> "Parameter \"name\" or \"query\" is required"]
    ELSE IF season_required(media_type_of(data), data.season)
    THEN [status |-> 400, error |-> "Season parameter is required"]
    ELSE IF int_raises(data.season) \/ int_raises(data.ep)
    THEN [status |-> 500, error |-> "ValueError"]
    ELSE [status |-> 0, error |-> ""]

\* `generate_cache_key(query, media_type, season_int, ep_int)` of a request.
cache_key_of(data) ==
    generate_cache_key(data.name, media_type_of(data),
                       optional_int(data.season), optional_int(data.ep))

\* The argument of search_darkiworld for a request.
search_args(data) ==
    [name |-> normalize_query(data.name, optional_int(data.season)),
     type |-> media_type_of(data), season |-> data.season, ep |-> data.ep,
     allowed_hosters |-> parse_hosters(data.hosters)]

\* /search?name=..&type=..&season=..&ep=..&hosters=..: the parameters of a
\* request, '' for a parameter that is absent or empty.
Params(name, type, season, ep, hosters) ==
    [name |-> name, type |-> type, season |-> season, ep |-> ep, hosters |-> hosters]

\* Requests: without a name; for a series and an anime without a season; with
\* a season that is no number; for a film, with no hoster list and with two
\* spellings of the same list; for a series with a season, with and without
\* an episode and a hoster list.
RequestData ==
    {Params("", {}, "", "", ""),
     Params("foo", {"series"}, "", "", ""),
     Params("foo", {"animes"}, "", "2", "a"),
     Params("foo", {}, "x", "", ""),
     Params("foo", {}, "", "", ""),
     Params("foo", {}, "", "", "a"),
     Params("Foo TV", {}, "", "", " A,"),
     Params("foo", {"series"}, "1", "2", ""),
     Params("foo", {"series"}, "1", "", "a")}

\* The requests that pass the checks when the service is enabled, their cache
\* keys and their search arguments.
PassingData == {data \in RequestData : validate(TRUE, data).status = 0}
KeyTable == [data \in PassingData |-> cache_key_of(data)]
ArgsTable == [data \in PassingData |-> search_args(data)]
RequestKeys == {KeyTable[data] : data \in PassingData}

\* A thread handling no /search request.
NoSearchRequest ==
    [hpc |-> "none", cache_key |-> "none", result |-> None, status |-> 0,
     acquired |-> FALSE, releases |-> 0, error |-> "",
     data |-> [name |-> "", type |-> {}, season |-> "", ep |-> "", hosters |-> ""]]

\* search(): a request arrives; it is rejected by one of the checks, or its
\* cache key is generated and `search_cache.get(cache_key)` is called.
search_request(t, data) ==
    LET check == validate(runtime_config.enabled, data) IN
    /\ req[t].hpc \in {"none", "done"}
    /\ th[t].pc = "idle"
    /\ IF check.status /= 0
       THEN /\ req' = [req EXCEPT ![t] = [NoSearchRequest EXCEPT !.hpc = "done", !.data = data,
                                              !.status = check.status, !.error = check.error]]
            /\ UNCHANGED <<now, cache, cache_lock, active_requests, guard_lock, th,
                           nosweep, last_set, granted, denied, call, svc>>
       ELSE /\ get_enter(t, "SearchCache", KeyTable[data])
            /\ req' = [req EXCEPT ![t] = [NoSearchRequest EXCEPT !.hpc = "get", !.data = data,
                                              !.cache_key = KeyTable[data]]]

\* The service with the search enabled or not, and threads serving /search.
InitRequest ==
    /\ now = 0
    /\ cache = [c \in Instances |-> EmptyDict]
    /\ cache_lock = [c \in Instances |-> NoThread]
    /\ active_requests = {}
    /\ guard_lock = NoThread
    /\ nosweep = [c \in Instances |-> EmptyDict]
    /\ last_set = [c \in Instances |-> EmptyDict]
    /\ granted = [k \in RequestKeys |-> 0]
    /\ denied = [k \in RequestKeys |-> FALSE]
    /\ call = NoCall
    /\ \E enabled \in BOOLEAN : runtime_config = [InitialConfig EXCEPT !.enabled = enabled]
    /\ cfg_th = [w \in {} |-> NoConfigRequest]
    /\ login_passed = FALSE
    /\ InitNoDriver
    /\ InitNoDebrid
    /\ th = [t \in Threads |-> Idle]
    /\ req = [t \in Threads |-> NoSearchRequest]

SearchRequest == \E t \in DOMAIN th, data \in RequestData : search_request(t, data)
RequestSucceeded == \E t \in DOMAIN th : search_succeeded(t, ArgsTable[req[t].data])
RequestFailed == \E t \in DOMAIN th : search_failed(t, ArgsTable[req[t].data])

\* The clock stands still here: no entry expires, and get never has an
\* expired entry to delete.
NextRequest ==
    \/ SearchRequest \/ GetCheck
    \/ SearchCacheHit \/ SearchTryAcquire
    \/ AcquireCheck \/ AcquireAdd
    \/ SearchRejected \/ SearchRun
    \/ RequestSucceeded \/ RequestFailed \/ SearchRaised
    \/ SetWrite \/ SearchFinally \/ ReleaseDiscard \/ SearchRespond

SpecRequest == InitRequest /\ [][NextRequest]_vars

\* ------------------------------------------------------------ link checker

\* The tuple `(is_available, filename_or_none)` cached for a link; the
\* filename is the set of its values, empty for None.
DebridValue(is_available, filename) ==
    [type |-> "tuple", is_available |-> is_available, filename |-> filename]

\* dict.update: the entries of b over those of a.
update(a, b) == [k \in DOMAIN a \cup DOMAIN b |-> IF k \in DOMAIN b THEN b[k] ELSE a[k]]

\* A dict with the single entry key -> value.
single(key, value) == [k \in {key} |-> value]

\* `filename.rsplit('.', 1)[0] if '.' in filename else filename`.
name_without_ext(filename) ==
    IF \E i \in 1..Len(filename) : char_at(filename, i) = "."
    THEN LET last == CHOOSE i \in 1..Len(filename) :
                         /\ char_at(filename, i) = "."
                         /\ \A j \in (i + 1)..Len(filename) : char_at(filename, j) /= "."
         IN SubSeq(filename, 1, last - 1)
    ELSE filename

\* `chunks = [links_list[i:i + chunk_size] for i in range(0, len(links_list), chunk_size)]`.
chunks_of(links_list, chunk_size) ==
    [i \in 1..((Len(links_list) + chunk_size - 1) \div chunk_size) |->
        SubSeq(links_list, (i - 1) * chunk_size + 1,
               IF i * chunk_size < Len(links_list) THEN i * chunk_size ELSE Len(links_list))]

\* The links of a chunk.
chunk_set(chunk) == {chunk[i] : i \in DOMAIN chunk}

\* Mutant: the lookup takes every link for uncached.
is_cached_never(cached) == FALSE

\* `cached = debrid_cache.get(link)`; `if cached is not None:`.
is_cached(cached) == cached /= None

\* `ThreadPoolExecutor(max_workers=3)`: chunks in flight at a time.
chunk_workers == 3

\* What the steps of the link checker leave alone.
DebridFrame ==
    UNCHANGED <<now, cache_lock, active_requests, guard_lock, th, req, granted, denied, call,
                runtime_config, cfg_th, login_passed, drv, api_key>>

\* debrid_cache.set(link, value) with the default TTL, on a dict.
debrid_set(d, link, value, time) ==
    dict_put(d, link, value, expiry(time, effective_ttl("DebridCache", {})))

\* The frame of a finished call: its arguments, what it looked up and checked
\* (history), and the tuple it returned.
Finished(f, available_links, exact_filenames) ==
    [NoCheck EXCEPT !.links = f.links, !.hits = f.hits, !.external = f.external,
                    !.ret = [available_links |-> available_links,
                             exact_filenames |-> exact_filenames]]

\* check_links_and_get_filenames(links, chunk_size): `if not links: return {}, {}`.
check_begin(links, chunk_size) ==
    /\ dbr.pc = "idle"
    /\ dbr' = IF DOMAIN links = {}
              THEN Finished(NoCheck, NoLinks, NoLinks)
              ELSE [NoCheck EXCEPT !.pc = "lookup", !.links = links, !.chunk_size = chunk_size,
                                   !.todo = DOMAIN links]
    /\ UNCHANGED <<cache, nosweep, last_set>>
    /\ DebridFrame

\* The lookup loop, one link: `cached = debrid_cache.get(link)` and the
\* sorting of the link into cached_available, cached_filenames or
\* uncached_links.
check_lookup(release_id) ==
    LET link == dbr.links[release_id]
        got == lazy_get(cache["DebridCache"], link, now)
        cached == got.ret
        hit == is_cached(cached)
        left == dbr.todo \ {release_id}
    IN
    /\ dbr.pc = "lookup"
    /\ release_id \in dbr.todo
    /\ cache' = own_dict(cache, "DebridCache", got.dict)
    /\ nosweep' = [nosweep EXCEPT !["DebridCache"] = lazy_get(@, link, now).dict]
    /\ dbr' = [dbr EXCEPT
                 !.todo = left,
                 !.pc = IF left = {} THEN "decide" ELSE "lookup",
                 !.hits = update(@, single(link,
                              [hit |-> hit, is_available |-> hit /\ cached.is_available])),
                 !.cached_available =
                     IF hit /\ cached.is_available THEN update(@, single(release_id, link)) ELSE @,
                 !.cached_filenames =
                     IF hit /\ cached.is_available /\ cached.filename /= {}
                     THEN update(@, single(link, CHOOSE x \in cached.filename : TRUE)) ELSE @,
                 !.uncached = IF hit THEN @ ELSE Append(@, release_id)]
    /\ UNCHANGED last_set
    /\ DebridFrame

\* After the loop: `if not uncached_links: return cached_available, cached_filenames`;
\* otherwise the AllDebrid batches when there is an API key, the HTTP
\* fallback when there is none.
check_decide ==
    LET links_list == [i \in 1..Len(dbr.uncached) |-> dbr.links[dbr.uncached[i]]] IN
    /\ dbr.pc = "decide"
    /\ dbr' = IF dbr.uncached = <<>>
              THEN Finished(dbr, dbr.cached_available, dbr.cached_filenames)
              ELSE IF api_key
              THEN [dbr EXCEPT !.pc = "chunks", !.chunks = chunks_of(links_list, dbr.chunk_size)]
              ELSE [dbr EXCEPT !.pc = "fallback", !.fallback = chunk_set(links_list)]
    /\ UNCHANGED <<cache, nosweep, last_set>>
    /\ DebridFrame

\* process_chunk: the batch of a chunk is posted to the AllDebrid API.
chunk_post(i) ==
    /\ dbr.pc = "chunks"
    /\ i \in DOMAIN dbr.chunks \ dbr.posted
    /\ Cardinality(dbr.posted \ dbr.done) < chunk_workers
    /\ dbr' = [dbr EXCEPT !.posted = @ \cup {i},
                          !.external = @ \cup chunk_set(dbr.chunks[i])]
    /\ UNCHANGED <<cache, nosweep, last_set>>
    /\ DebridFrame

\* The release of a link: `link_to_id = {link: release_id for ...}`.
link_to_id(links, link) == CHOOSE release_id \in DOMAIN links : links[release_id] = link

\* An info of a batch response caches its link: unavailable for LINK_DOWN,
\* available with the name of its file otherwise; other errors cache nothing.
RECURSIVE cache_infos(_, _, _, _)
cache_infos(d, chunk, infos, time) ==
    IF chunk = <<>> THEN d
    ELSE LET link == Head(chunk)
             info == infos[link]
             name == IF info.filename = "" THEN {} ELSE {name_without_ext(info.filename)}
             put == IF info.error = "LINK_DOWN" THEN debrid_set(d, link, DebridValue(FALSE, {}), time)
                    ELSE IF info.error /= "" THEN d
                    ELSE debrid_set(d, link, DebridValue(TRUE, name), time)
         IN cache_infos(put, Tail(chunk), infos, time)

\* process_chunk: the response of a batch. A successful one carries an info
\* for each link; a failed one (or an exception) leaves the chunk to the
\* fallback. The results are merged as the chunk completes.
chunk_response(i, response) ==
    LET chunk == dbr.chunks[i]
        good == {link \in chunk_set(chunk) : response.infos[link].error = ""}
        named == {link \in good : response.infos[link].filename /= ""}
        chunk_available == [release_id \in {link_to_id(dbr.links, link) : link \in good} |->
                               dbr.links[release_id]]
        chunk_filenames == [link \in named |-> name_without_ext(response.infos[link].filename)]
    IN
    /\ dbr.pc = "chunks"
    /\ i \in dbr.posted \ dbr.done
    /\ IF response.status = "success"
       THEN /\ cache' = own_dict(cache, "DebridCache",
                                 cache_infos(cache["DebridCache"], chunk, response.infos, now))
            /\ nosweep' = [nosweep EXCEPT !["DebridCache"] =
                              cache_infos(@, chunk, response.infos, now)]
            /\ last_set' = [last_set EXCEPT !["DebridCache"] =
                               cache_infos(@, chunk, response.infos, now)]
            /\ dbr' = [dbr EXCEPT !.done = @ \cup {i},
                                  !.all_available = update(@, chunk_available),
                                  !.all_filenames = update(@, chunk_filenames)]
       ELSE /\ dbr' = [dbr EXCEPT !.done = @ \cup {i}, !.failed = @ \cup chunk_set(chunk)]
            /\ UNCHANGED <<cache, nosweep, last_set>>
    /\ DebridFrame

\* All chunks are processed: the failed links go to the HTTP fallback; with
\* none, the results are merged with the cached ones and returned.
chunks_finish ==
    /\ dbr.pc = "chunks"
    /\ dbr.done = DOMAIN dbr.chunks
    /\ dbr' = IF dbr.failed /= {}
              THEN [dbr EXCEPT !.pc = "fallback", !.fallback = dbr.failed]
              ELSE Finished(dbr, update(dbr.all_available, dbr.cached_available),
                                 update(dbr.all_filenames, dbr.cached_filenames))
    /\ UNCHANGED <<cache, nosweep, last_set>>
    /\ DebridFrame

\* _check_links_parallel: check_link_availability(link), an HTTP request, for
\* one link.
fallback_check(link, is_available) ==
    /\ dbr.pc = "fallback"
    /\ link \in dbr.fallback \ DOMAIN dbr.checked
    /\ dbr' = [dbr EXCEPT !.checked = update(@, single(link, is_available)),
                          !.external = @ \cup {link}]
    /\ UNCHANGED <<cache, nosweep, last_set>>
    /\ DebridFrame

\* The results of the fallback are cached when there is no API key.
RECURSIVE cache_checked(_, _, _, _)
cache_checked(d, links, checked, time) ==
    IF links = {} THEN d
    ELSE LET link == CHOOSE link \in links : TRUE
         IN cache_checked(debrid_set(d, link, DebridValue(checked[link], {}), time),
                          links \ {link}, checked, time)

\* The fallback is over: after failed batches its available links are added
\* to those of the batches; with no API key its results are cached. The
\* cached results are merged in and the tuple is returned.
fallback_finish ==
    LET up == {link \in dbr.fallback : dbr.checked[link]}
        fallback_available == [release_id \in {link_to_id(dbr.links, link) : link \in up} |->
                                  dbr.links[release_id]]
    IN
    /\ dbr.pc = "fallback"
    /\ DOMAIN dbr.checked = dbr.fallback
    /\ IF api_key
       THEN /\ dbr' = Finished(dbr, update(update(dbr.all_available, fallback_available),
                                           dbr.cached_available),
                                    update(dbr.all_filenames, dbr.cached_filenames))
            /\ UNCHANGED <<cache, nosweep, last_set>>
       ELSE /\ dbr' = Finished(dbr, update(fallback_available, dbr.cached_available),
                                    dbr.cached_filenames)
            /\ cache' = own_dict(cache, "DebridCache",
                                 cache_checked(cache["DebridCache"], dbr.fallback, dbr.checked, now))
            /\ nosweep' = [nosweep EXCEPT !["DebridCache"] =
                              cache_checked(@, dbr.fallback, dbr.checked, now)]
            /\ last_set' = [last_set EXCEPT !["DebridCache"] =
                               cache_checked(@, dbr.fallback, dbr.checked, now)]
    /\ DebridFrame

\* The clock advances while links are checked.
DebridTick ==
    /\ now < MaxTime
    /\ now' = now + 1
    /\ UNCHANGED <<cache, cache_lock, active_requests, guard_lock, th, req,
                   nosweep, last_set, granted, denied, call, svc>>

\* The download link of each release (the site gives every release its own).
LinkOf == [release_id \in {"r1", "r2"} |-> IF release_id = "r1" THEN "L1" ELSE "L2"]

\* The `links` arguments: the links of any set of releases.
LinkDicts == {[release_id \in ids |-> LinkOf[release_id]] : ids \in SUBSET DOMAIN LinkOf}

\* The `chunk_size` arguments: one link per batch, and the default.
ChunkSizes == {1, 10}

\* File names AllDebrid reports: none, one without and one with extension.
Filenames == {"", "b", "a.b.mkv"}

\* The infos AllDebrid can give for a link.
Infos ==
    {[error |-> "LINK_DOWN", filename |-> ""], [error |-> "OTHER", filename |-> ""]}
        \cup {[error |-> "", filename |-> f] : f \in Filenames}

\* The responses to the batch of a chunk.
Responses(chunk) ==
    {[status |-> "error", infos |-> [link \in chunk_set(chunk) |-> [error |-> "OTHER", filename |-> ""]]]}
        \cup {[status |-> "success", infos |-> infos] : infos \in [chunk_set(chunk) -> Infos]}

\* Entries earlier calls left in debrid_cache: for each link none, or a
\* result that expires at the next second or much later.
EarlierEntries ==
    [value : {DebridValue(TRUE, {"b"}), DebridValue(FALSE, {})},
     expires_at : {1, debrid_cache_default_ttl}]
EarlierCaches ==
    UNION {[links -> EarlierEntries] : links \in SUBSET {LinkOf[r] : r \in DOMAIN LinkOf}}

\* The service with or without an AllDebrid API key, entries of earlier calls
\* in debrid_cache, and no call in progress. The calls follow one another:
\* main.py serves one request at a time (`app.run(..., threaded=False)`).
InitDebrid ==
    /\ now = 0
    /\ \E d \in EarlierCaches :
          /\ cache = [c \in Instances |-> IF c = "DebridCache" THEN d ELSE EmptyDict]
          /\ nosweep = cache
          /\ last_set = cache
    /\ cache_lock = [c \in Instances |-> NoThread]
    /\ active_requests = {}
    /\ guard_lock = NoThread
    /\ granted = [k \in Keys |-> 0]
    /\ denied = [k \in Keys |-> FALSE]
    /\ call = NoCall
    /\ InitNoConfig
    /\ InitNoDriver
    /\ dbr = NoCheck
    /\ api_key \in BOOLEAN
    /\ th = [t \in {} |-> Idle]
    /\ req = [t \in {} |-> NoRequest]

CheckBegin == \E links \in LinkDicts, chunk_size \in ChunkSizes : check_begin(links, chunk_size)
CheckLookup == \E release_id \in DOMAIN LinkOf : check_lookup(release_id)
CheckDecide == check_decide
ChunkPost == \E i \in 1..Cardinality(DOMAIN LinkOf) : chunk_post(i)
ChunkResponse ==
    \E i \in 1..Cardinality(DOMAIN LinkOf) :
        /\ dbr.pc = "chunks" /\ i \in DOMAIN dbr.chunks
        /\ \E response \in Responses(dbr.chunks[i]) : chunk_response(i, response)
ChunksFinish == chunks_finish
FallbackCheck ==
    \E release_id \in DOMAIN LinkOf, is_available \in BOOLEAN :
        fallback_check(LinkOf[release_id], is_available)
FallbackFinish == fallback_finish

NextDebrid ==
    \/ CheckBegin \/ CheckLookup \/ CheckDecide
    \/ ChunkPost \/ ChunkResponse \/ ChunksFinish
    \/ FallbackCheck \/ FallbackFinish
    \/ DebridTick

SpecDebrid == InitDebrid /\ [][NextDebrid]_vars

\* ------------------------------------------------------------------ claims

\* A method call of thread t returns in this step.
Returns(t, op) == th[t].op = op /\ th[t].pc /= "idle" /\ th'[t].pc = "idle"

\* C1: RequestGuard mutual exclusion.  For every key, among the acquire calls
\* that complete between two executions of release on that key (or since the
\* start, when the key is not held), exactly one returns True: never two, and
\* a call is refused only while a granted one stands; the key is in the active
\* set exactly while a grant stands.
C1_ExactlyOneAcquireWins ==
    \A k \in Keys :
        /\ granted[k] <= 1
        /\ denied[k] => granted[k] = 1
        /\ (k \in active_requests) <=> (granted[k] = 1)

\* C1 witness: every racing thread has completed acquire("k1") with no
\* release since; one got True, the others False.
C1_Witness ==
    /\ \A t \in DOMAIN th :
          th[t].pc = "idle" /\ th[t].op = "acquire" /\ th[t].key = "k1"
    /\ Cardinality(DOMAIN th) = 3
    /\ Cardinality({t \in DOMAIN th : th[t].ret}) = 1
    /\ granted["k1"] = 1 /\ denied["k1"]

\* C2: no two /search requests are inside search_darkiworld for the same cache
\* key at the same time, and a request is inside it only after its own
\* successful acquire and before its own release (its key is then held).
C2_NoConcurrentSearchSameKey ==
    /\ \A t1, t2 \in DOMAIN th :
          (t1 /= t2 /\ req[t1].hpc = "searching" /\ req[t2].hpc = "searching")
              => req[t1].cache_key /= req[t2].cache_key
    /\ \A t \in DOMAIN th :
          req[t].hpc = "searching"
              => /\ req[t].acquired
                 /\ req[t].releases = 0
                 /\ req[t].cache_key \in active_requests

\* C2 witness: one request is searching for k1 while another request for k1
\* has been turned away with 429.
C2_Witness ==
    \E t1, t2 \in DOMAIN th :
        /\ req[t1].hpc = "searching" /\ req[t1].cache_key = "k1"
        /\ req[t2].hpc = "done" /\ req[t2].cache_key = "k1" /\ req[t2].status = 429

\* C3: a /search request that acquired the guard calls release exactly once by
\* the time it has answered, whatever the outcome of the search; a request
\* that did not acquire never calls release; and when no request is in flight
\* the guard's active set is empty.
C3_ReleaseOncePerAcquire ==
    /\ \A t \in DOMAIN th :
          /\ req[t].releases <= 1
          /\ req[t].releases = 1 => req[t].acquired
          /\ req[t].hpc = "done" => req[t].releases = (IF req[t].acquired THEN 1 ELSE 0)
    /\ (\A t \in DOMAIN th : req[t].hpc \in {"none", "done"}) => active_requests = {}

\* C3 witness: with nothing in flight, one request has answered 500 after its
\* search raised and another has answered 400 after an unsuccessful search,
\* each having released once.
C3_Witness ==
    \E t1, t2 \in DOMAIN th :
        /\ \A t \in DOMAIN th : req[t].hpc = "done"
        /\ req[t1].status = 500 /\ req[t1].acquired /\ req[t1].releases = 1
        /\ req[t2].status = 400 /\ req[t2].acquired /\ req[t2].releases = 1

\* C4: acquire returns True exactly when the key was not held, and the key is
\* held afterwards either way; after release the key is not held, so the next
\* acquire succeeds again.
C4_AcquireReleaseCycle ==
    [][\A t \in DOMAIN th :
          /\ Returns(t, "acquire")
                => /\ th'[t].ret = (th[t].key \notin active_requests)
                   /\ th[t].key \in active_requests'
          /\ Returns(t, "release")
                => th[t].key \notin active_requests'
      ]_vars

\* C4 witness: acquire("k1") was refused to t3 while the key was held, the key
\* was then released by t2, and t1's acquire("k1") after that release
\* returned True.
C4_Witness ==
    /\ \A t \in DOMAIN th : th[t].pc = "idle" /\ th[t].key = "k1"
    /\ th["t1"].op = "acquire" /\ th["t1"].ret = TRUE
    /\ th["t2"].op = "release"
    /\ th["t3"].op = "acquire" /\ th["t3"].ret = FALSE
    /\ granted["k1"] = 1 /\ ~denied["k1"]

\* The time get read for its expiry check: read in the step that checks the
\* entry, and kept in the frame while the removal is pending.
GetTime(t) == IF th[t].pc = "get_check" THEN now ELSE th[t].t

\* C5: TTLCache.get returns the stored value exactly when an entry exists and
\* the time it reads is strictly before the entry's expiration, leaving the
\* cache unchanged; an entry at or past its expiration is removed (only that
\* entry) and None is returned; with no entry None is returned and the cache
\* is unchanged.
C5_GetSemantics ==
    [][\A t \in DOMAIN th :
          Returns(t, "get") =>
              LET f == th[t]
                  d == cache[f.self]
                  ret == th'[t].ret
              IN
              IF f.key \in DOMAIN d
              THEN IF GetTime(t) < d[f.key].expires_at
                   THEN ret = d[f.key].value /\ cache' = cache
                   ELSE /\ ret = None
                        /\ DOMAIN cache'[f.self] = DOMAIN d \ {f.key}
                        /\ \A k \in DOMAIN cache'[f.self] : cache'[f.self][k] = d[k]
              ELSE ret = None /\ cache' = cache
      ]_vars

\* C5 witness: one get has returned the value of a live entry, and another
\* get has returned None for a key whose entry had expired and was removed by
\* that get (it is gone from the cache and from the sweep-free history dict,
\* which only a get empties of a single key).
C5_Witness ==
    \E t1, t2 \in DOMAIN th :
        LET d == cache["SearchCache"] IN
        /\ th[t1].pc = "idle" /\ th[t1].op = "get" /\ th[t1].key = "k2"
        /\ "k2" \in DOMAIN d /\ now < d["k2"].expires_at /\ th[t1].ret = d["k2"].value
        /\ th[t2].pc = "idle" /\ th[t2].op = "get" /\ th[t2].key = "k1"
        /\ th[t2].ret = None
        /\ "k1" \notin DOMAIN d
        /\ "k1" \in DOMAIN last_set["SearchCache"] \ DOMAIN nosweep["SearchCache"]

\* C6: the write of set(k, v, ttl), whose time.time() was t, leaves
\* (v, t + ttl) under k (t + default_ttl when ttl is omitted) whatever was
\* there, and every other key as it was; and a get that reads a time before
\* the expiration of the last entry set for k since the last clear_all
\* returns that entry's value.
C6_SetOverwrites ==
    [][\A t \in DOMAIN th :
          LET f == th[t]
              d == cache[f.self]
          IN
          /\ Returns(t, "set") =>
                LET ttl == IF f.ttl = {} THEN default_ttl(f.self)
                           ELSE CHOOSE x \in f.ttl : TRUE
                IN
                /\ DOMAIN cache'[f.self] = DOMAIN d \cup {f.key}
                /\ cache'[f.self][f.key] = [value |-> f.value, expires_at |-> f.t + ttl]
                /\ \A k \in DOMAIN d \ {f.key} : cache'[f.self][k] = d[k]
          /\ Returns(t, "get") =>
                LET ls == last_set[f.self] IN
                (f.key \in DOMAIN ls /\ GetTime(t) < ls[f.key].expires_at)
                    => th'[t].ret = ls[f.key].value
      ]_vars

\* C6 witness: k1 once held v1 (a get returned it), was overwritten at time 1
\* by a set of v2 without ttl, and a later get returned v2.
C6_Witness ==
    \E t1, t2 \in DOMAIN th :
        /\ th[t1].pc = "idle" /\ th[t1].op = "get" /\ th[t1].key = "k1"
        /\ th[t1].ret = [type |-> "str", v |-> "v1"]
        /\ th[t2].pc = "idle" /\ th[t2].op = "get" /\ th[t2].key = "k1"
        /\ th[t2].ret = [type |-> "str", v |-> "v2"]
        /\ "k1" \in DOMAIN cache["SearchCache"]
        /\ cache["SearchCache"]["k1"] =
              [value |-> [type |-> "str", v |-> "v2"],
               expires_at |-> 1 + search_cache_default_ttl]

\* C7: get's check and removal are one atomic step with respect to the other
\* cache operations: no two threads are inside locked blocks of the same
\* cache at once, the entry a get removes is the expired entry it observed
\* (never one written since), and every stored entry is one written whole by
\* a single set.
C7_GetAtomic ==
    [][/\ \A t1, t2 \in DOMAIN th :
             (t1 /= t2 /\ th[t1].pc \in {"get_check", "get_del", "clear_all", "size"}
                       /\ th[t2].pc \in {"get_check", "get_del", "clear_all", "size"})
                 => th[t1].self /= th[t2].self
       /\ \A t \in DOMAIN th :
             (th[t].pc = "get_del" /\ th'[t].pc = "idle") =>
                 LET f == th[t] IN
                 /\ f.key \in DOMAIN cache[f.self]
                 /\ cache[f.self][f.key] = f.entry
                 /\ f.t >= f.entry.expires_at
                 /\ now >= cache[f.self][f.key].expires_at
       /\ \A c \in Instances : \A k \in DOMAIN cache[c] :
             k \in DOMAIN last_set[c] /\ cache[c][k] = last_set[c][k]
      ]_vars

\* C7 witness: a get has observed an expired entry for k1 and is about to
\* remove it while another thread's set of a fresh entry for k1 waits for the
\* lock.
C7_Witness ==
    \E t1, t2 \in DOMAIN th :
        /\ th[t1].pc = "get_del" /\ th[t1].key = "k1"
        /\ th[t2].pc = "set_write" /\ th[t2].key = "k1" /\ th[t2].self = th[t1].self
        /\ now < th[t2].expires_at

\* C8: clear_expired, whose time.time() was t, removes exactly the entries
\* with expiration <= t and leaves every other entry with its value and
\* expiration.
C8_ClearExpiredExact ==
    [][\A t \in DOMAIN th :
          Returns(t, "clear_expired") =>
              LET f == th[t]
                  d == cache[f.self]
              IN
              /\ DOMAIN cache'[f.self] = {k \in DOMAIN d : d[k].expires_at > f.t}
              /\ \A k \in DOMAIN cache'[f.self] : cache'[f.self][k] = d[k]
              /\ \A c \in Instances \ {f.self} : cache'[c] = cache[c]
      ]_vars

\* C8 witness: after a clear_expired, the expired k1 is gone from the cache
\* (the sweep-free history dict still has it) and the unexpired k2 is still
\* there.
C8_Witness ==
    \E t \in DOMAIN th :
        LET d == cache["SearchCache"]
            h == nosweep["SearchCache"]
        IN
        /\ th[t].pc = "idle" /\ th[t].op = "clear_expired"
        /\ "k1" \in DOMAIN h \ DOMAIN d /\ h["k1"].expires_at <= now
        /\ "k2" \in DOMAIN d /\ now < d["k2"].expires_at

\* C9: lazy expiry suffices.  Every get returns what the same get would have
\* returned from a cache that saw the same sets, gets and clear_alls at the
\* same times but never a clear_expired.
C9_SweepUnobservable ==
    [][\A t \in DOMAIN th :
          Returns(t, "get") =>
              th'[t].ret = lazy_get(nosweep[th[t].self], th[t].key, GetTime(t)).ret
      ]_vars

\* C9 witness: a get is answering for a key that a clear_expired has removed
\* and that a cache without the sweep would still hold.
C9_Witness ==
    \E t, u \in DOMAIN th :
        /\ th[t].pc = "get_check"
        /\ th[t].key \in DOMAIN nosweep[th[t].self] \ DOMAIN cache[th[t].self]
        /\ th[u].pc = "idle" /\ th[u].op = "clear_expired"

\* C10: size returns the number of stored entries, expired or not; the clock
\* advancing changes no cache; and an entry leaves a cache only in the
\* removal step of a get for its key that found it expired, in a
\* clear_expired, or in a clear_all.
C10_SizeCountsStored ==
    [][/\ \A t \in DOMAIN th :
             Returns(t, "size") => th'[t].ret = Cardinality(DOMAIN cache[th[t].self])
       /\ now' /= now => cache' = cache
       /\ \A c \in Instances : \A k \in DOMAIN cache[c] \ DOMAIN cache'[c] :
             \E t \in DOMAIN th :
                 /\ th[t].self = c
                 /\ \/ /\ Returns(t, "get") /\ th[t].pc = "get_del" /\ th[t].key = k
                       /\ now >= cache[c][k].expires_at
                    \/ Returns(t, "clear_expired") /\ now >= cache[c][k].expires_at
                    \/ Returns(t, "clear_all")
      ]_vars

\* C10 witness: size has returned 1 while the only stored entry was already
\* expired at the time of the call.
C10_Witness ==
    \E t \in DOMAIN th :
        LET d == cache["SearchCache"] IN
        /\ th[t].pc = "idle" /\ th[t].op = "size" /\ th[t].ret = 1
        /\ DOMAIN d = {"k1"} /\ d["k1"].expires_at <= th[t].t
        /\ last_set["SearchCache"] = d

\* C11: normalize_query is idempotent: normalizing the result of
\* normalize_query(q, s) again, with the same season s, returns it unchanged,
\* also for queries that carry several recognized suffixes stacked at the end.
C11_NormalizeIdempotent ==
    (call.fn = "normalize_query" /\ call.how = "again") => call.ret = call.query

\* C12: suffix collapse.  For a base query b, a recognized suffix x and a fixed
\* season, normalize_query(b + " " + x, season) equals normalize_query(b, season),
\* and so generate_cache_key gives both queries the same key for every fixed
\* media type and episode.
C12_SuffixCollapse ==
    (call.fn = "normalize_query" /\ call.how = "suffixed") =>
        /\ call.ret = call.base_ret
        /\ \A media_type \in MediaTypes, episode \in Episodes :
              generate_cache_key(call.query, media_type, call.season, episode)
                  = generate_cache_key(call.base, media_type, call.season, episode)

\* C13: key distinctness.  For one query text, two (media_type, season,
\* episode) triples that differ in at least one component, a component absent
\* in one and present in the other included, get different cache keys.
C13_KeysDistinct ==
    (/\ call.fn = "generate_cache_key"
     /\ call.how = "second"
     /\ <<call.media_type, call.season, call.episode>>
            /= <<call.first.media_type, call.first.season, call.first.episode>>)
        => call.ret /= call.first.ret

\* C13, the case the claim names: season 1 without episode against episode 1
\* without season.
C13_SeasonAgainstEpisode ==
    /\ call.fn = "generate_cache_key"
    /\ call.how = "second"
    /\ call.media_type = call.first.media_type
    /\ call.first.season = {1} /\ call.first.episode = {}
    /\ call.season = {} /\ call.episode = {1}
    /\ call.ret = call.first.ret

\* The decimal numerals of the seasons and episodes of the requests.
Decimal(n) == CASE n = 1 -> "1" [] n = 2 -> "2" [] n = 12 -> "12"

\* The text "|" followed by the numeral of an optional number, nothing when it
\* is absent.
Field(opt) == IF opt = {} THEN "" ELSE "|" \o Decimal(CHOOSE x \in opt : TRUE)

\* How often character c occurs in s.
CountChar(s, c) == Cardinality({i \in 1..Len(s) : char_at(s, i) = c})

\* The key is the normalized query, "|", the media type, then "|" and the
\* season when present, then "|" and the episode when present.
KeyIsJoin ==
    call.fn = "generate_cache_key" =>
        call.ret = normalize_query(call.query, call.season) \o "|" \o call.media_type
                       \o Field(call.season) \o Field(call.episode)

\* C14 as stated: the key is that join, and the delimiter "|" never occurs in
\* the normalized-query component.
C14_DelimiterNeverInQuery ==
    /\ KeyIsJoin
    /\ call.fn = "generate_cache_key" =>
          CountChar(normalize_query(call.query, call.season), "|") = 0

\* C14, amended: the key is that join, and normalize_query neither removes nor
\* adds the delimiter: the normalized-query component contains "|" exactly as
\* often as the query does.
C14_KeyIsJoinOfParts ==
    /\ KeyIsJoin
    /\ call.fn = "generate_cache_key" =>
          CountChar(normalize_query(call.query, call.season), "|")
              = CountChar(call.query, "|")

\* C14 witness: a key built from a query holding the delimiter, with season
\* and episode present.
C14_Witness ==
    /\ call.fn = "generate_cache_key"
    /\ call.query = "a|b Multi" /\ call.media_type = "series"
    /\ call.season = {12} /\ call.episode = {2}
    /\ call.ret = "a|b|series|12|2"

\* Thread t calls method op in this step.
Enters(t, op) == th[t].pc = "idle" /\ th'[t].pc /= "idle" /\ th'[t].op = op

\* The order of the steps of one /search request, up to the release: the guard
\* is asked only after this request's cache lookup returned a miss; a hit is
\* answered with the cached result, the request never acquiring, searching or
\* releasing; the cache is written only by a request that holds the guard for
\* the key and has not released it, with the result of its own search.
SearchOrder(t) ==
    /\ Enters(t, "acquire") =>
          /\ req[t].hpc = "get" /\ th[t].op = "get" /\ th[t].key = th'[t].key
          /\ ~truthy(th[t].ret)
    /\ (req[t].hpc = "get" /\ req'[t].hpc = "done") =>
          /\ truthy(th[t].ret)
          /\ req'[t].result = th[t].ret /\ req'[t].status = 200
          /\ ~req'[t].acquired /\ req'[t].releases = 0
          /\ active_requests' = active_requests /\ cache' = cache
    /\ Returns(t, "set") =>
          /\ req[t].hpc = "set" /\ req[t].acquired /\ req[t].releases = 0
          /\ req[t].cache_key \in active_requests
          /\ cache'["SearchCache"][req[t].cache_key]
                 = [value |-> req[t].result, expires_at |-> th[t].expires_at]
    /\ Enters(t, "release") =>
          /\ req[t].acquired
          /\ req[t].status = 200 => (th[t].op = "set" /\ th[t].key = req[t].cache_key)

\* C15 as stated: the order above, and at the moment the guard for k is
\* released after a successful search the cache holds that search's result
\* for k.
C15_CacheHoldsResultAtRelease ==
    [][\A t \in DOMAIN th :
          /\ SearchOrder(t)
          /\ (Returns(t, "release") /\ req[t].status = 200) =>
                LET k == req[t].cache_key
                    d == cache["SearchCache"]
                IN k \in DOMAIN d /\ d[k].value = req[t].result]_vars

\* C15, amended: the order above, and at the moment the guard for k is released
\* after a successful search the cache has been written with that search's
\* result for k and still holds the entry, unless the entry's TTL has elapsed
\* by then (an expired entry may have been removed by another request's get).
C15_ResultStoredBeforeRelease ==
    [][\A t \in DOMAIN th :
          /\ SearchOrder(t)
          /\ (Returns(t, "release") /\ req[t].status = 200) =>
                LET k == req[t].cache_key
                    d == cache["SearchCache"]
                    w == last_set["SearchCache"]
                IN /\ k \in DOMAIN w
                   /\ w[k].value = req[t].result
                   /\ \/ k \in DOMAIN d /\ d[k] = w[k]
                      \/ ~is_fresh(now, w[k].expires_at)]_vars

\* C15 witness: one request has searched, cached its result and released the
\* guard, the entry is in the cache, and the other request was answered from
\* the cache without acquiring.
C15_Witness ==
    \E t1, t2 \in DOMAIN th :
        /\ req[t1].hpc = "release" /\ th[t1].pc = "idle" /\ th[t1].op = "release"
        /\ req[t1].status = 200 /\ req[t1].acquired
        /\ req[t1].cache_key \in DOMAIN cache["SearchCache"]
        /\ cache["SearchCache"][req[t1].cache_key].value = req[t1].result
        /\ req[t2].hpc = "done" /\ req[t2].status = 200 /\ ~req[t2].acquired
        /\ req[t2].cache_key = req[t1].cache_key /\ req[t2].result = req[t1].result

\* The acquire call of thread t's request has returned False and the request
\* has not been answered yet.
Refused(t) == req[t].hpc = "acquire" /\ th[t].pc = "idle" /\ th[t].ret = FALSE

\* Thread t takes this step.
StepOf(t) == th'[t] /= th[t] \/ req'[t] /= req[t]

\* C16: non-blocking rejection.  An acquire that returns False leaves the
\* active set unchanged; the request it belongs to can be answered at once,
\* whatever the holder is doing, and its only step is the 429 answer, which
\* touches neither the cache nor the active set; a request answered 429 has
\* not acquired, searched, cached or released anything.
C16_RejectedWithoutWaiting ==
    [][\A t \in DOMAIN th :
          /\ (Returns(t, "acquire") /\ th'[t].ret = FALSE) =>
                active_requests' = active_requests /\ cache' = cache
          /\ Refused(t) => ENABLED search_rejected(t)
          /\ (Refused(t) /\ StepOf(t)) =>
                /\ req'[t].hpc = "done" /\ req'[t].status = 429
                /\ th'[t] = th[t]
                /\ cache' = cache /\ active_requests' = active_requests
          /\ req'[t].status = 429 =>
                /\ req'[t].hpc = "done"
                /\ ~req'[t].acquired /\ req'[t].releases = 0 /\ req'[t].result = None]_vars

\* C16 witness: a request has been answered 429 while the holder of its key is
\* still inside the search.
C16_Witness ==
    \E t1, t2 \in DOMAIN th :
        /\ req[t1].hpc = "searching"
        /\ req[t2].hpc = "done" /\ req[t2].status = 429
        /\ req[t2].cache_key = req[t1].cache_key
        /\ active_requests = {req[t1].cache_key}
        /\ cache["SearchCache"] = EmptyDict

\* Thread t's request holds the guard for key k: its acquire returned True and
\* its release has not removed the key yet.
Holds(t, k) ==
    /\ req[t].cache_key = k
    /\ \/ req[t].hpc = "acquire" /\ th[t].pc = "idle" /\ th[t].ret = TRUE
       \/ req[t].hpc \in {"searching", "set", "finally"}
       \/ req[t].hpc = "release" /\ th[t].pc /= "idle"

\* C17: the guard has no timeout.  A key leaves the active set only in the
\* step in which the request that holds it executes release on it: no other
\* step and no passage of time removes it; and while the holder has not
\* released (its search may never return), the key is in the active set and
\* every acquire on it returns False.
C17_HeldUntilReleased ==
    [][/\ \A k \in Keys :
             (k \in active_requests /\ k \notin active_requests') =>
                 \E t \in DOMAIN th : Returns(t, "release") /\ th[t].key = k /\ Holds(t, k)
       /\ now' /= now => active_requests' = active_requests
       /\ \A t \in DOMAIN th :
             /\ Holds(t, req[t].cache_key) => req[t].cache_key \in active_requests
             /\ (Returns(t, "acquire") /\ \E h \in DOMAIN th : req[h].hpc = "searching"
                                                  /\ req[h].cache_key = th[t].key)
                    => th'[t].ret = FALSE]_vars

\* C17 witness: a search is still running after the clock has passed the whole
\* cache TTL; its key is still held and another request for it has been refused.
C17_Witness ==
    \E t1, t2 \in DOMAIN th :
        /\ now = MaxSleeps * search_cache_default_ttl
        /\ req[t1].hpc = "searching" /\ req[t1].cache_key \in active_requests
        /\ req[t2].cache_key = req[t1].cache_key
        /\ req[t2].hpc = "done" /\ req[t2].status = 429
        /\ th[t2].op = "acquire" /\ th[t2].ret = FALSE

\* C18: release(k) on a key that is not in the active set changes nothing and
\* returns normally; release(k) on a held key removes exactly k and leaves
\* every other held key in the set.
C18_ReleaseRemovesOnlyItsKey ==
    [][\A t \in DOMAIN th :
          Returns(t, "release") =>
              /\ th[t].key \notin active_requests => active_requests' = active_requests
              /\ th[t].key \in active_requests =>
                    active_requests' = active_requests \ {th[t].key}
              /\ th'[t].ret = None
              /\ guard_lock' = NoThread]_vars

\* C18 witness: release("k1") is inside its locked block while both k1 and k2
\* are held.
C18_Witness ==
    \E t \in DOMAIN th :
        /\ th[t].pc = "release_discard" /\ th[t].key = "k1"
        /\ active_requests = {"k1", "k2"}

\* C19: expected outcomes are values, not errors, and leave the state alone.
\* A get on a key that is not stored (never set, or removed) returns None and
\* leaves the cache unchanged; an acquire on a held key returns False and
\* leaves the active set unchanged; and no call of get, set, clear_expired,
\* clear_all, size, is_locked, acquire or release ever raises.
C19_NoErrorStates ==
    [][\A t \in DOMAIN th :
          /\ (Returns(t, "get") /\ th[t].key \notin DOMAIN cache[th[t].self]) =>
                th'[t].ret = None /\ cache' = cache
          /\ (Returns(t, "get") /\ th[t].key \notin SetKeys) =>
                th'[t].ret = None /\ cache' = cache
          /\ (Returns(t, "acquire") /\ th[t].key \in active_requests) =>
                th'[t].ret = FALSE /\ active_requests' = active_requests
          /\ th'[t].pc /= "raised"]_vars

\* C19 witness: a get on a key that was never set has returned None while
\* another key is stored, and an acquire on a held key has returned False.
C19_Witness ==
    \E t1, t2 \in DOMAIN th :
        /\ th[t1].pc = "idle" /\ th[t1].op = "get" /\ th[t1].key \notin SetKeys
        /\ th[t1].ret = None
        /\ DOMAIN cache[CacheUnderTest] = SetKeys
        /\ th[t2].pc = "idle" /\ th[t2].op = "acquire" /\ th[t2].ret = FALSE
        /\ th[t2].key \in active_requests

\* C20: cache instances share no state.  A step of a set, get, clear_expired,
\* clear_all or size call on one instance leaves the contents and the lock of
\* every other instance unchanged, also when both are used with the same key
\* string; so what get and size return on an instance depends on that instance
\* alone: a get returns only a value stored by a set on the same instance, and
\* size counts the entries of its own dict.
C20_InstancesIndependent ==
    [][\A t \in DOMAIN th :
          /\ (th'[t] /= th[t]) =>
                \A other \in Instances \ {th'[t].self} :
                    cache'[other] = cache[other] /\ cache_lock'[other] = cache_lock[other]
          /\ (Returns(t, "get") /\ th'[t].ret /= None) =>
                /\ th[t].key \in DOMAIN last_set[th[t].self]
                /\ th'[t].ret = last_set[th[t].self][th[t].key].value
                /\ th'[t].ret = payload(th[t].self)
          /\ Returns(t, "size") => th'[t].ret = dict_len(cache[th[t].self])]_vars

\* C20 witness: the key has been set in both instances and then swept from
\* the search cache by clear_expired; the debrid cache still holds its own
\* entry and a get on it has returned that value, while a size call on the
\* search cache returned 0.
C20_Witness ==
    \E t1, t2 \in DOMAIN th :
        /\ cache["SearchCache"] = EmptyDict
        /\ SharedKey \in DOMAIN nosweep["SearchCache"]
        /\ SharedKey \in DOMAIN cache["DebridCache"]
        /\ cache["DebridCache"][SharedKey].value = payload("DebridCache")
        /\ th[t1].pc = "idle" /\ th[t1].op = "get" /\ th[t1].self = "DebridCache"
        /\ th[t1].ret = payload("DebridCache")
        /\ th[t2].pc = "idle" /\ th[t2].op = "size" /\ th[t2].self = "SearchCache"
        /\ th[t2].ret = 0

\* C21: only successful results are cached.  The step in which the guarded
\* search returns success false or raises, and every later step of that
\* request, leave the caches unchanged and call no set; every value stored in
\* the search cache is a successful result, so a request answered from the
\* cache is answered with a successful result, never with a failed one.
C21_FailedSearchNotCached ==
    [][\A t \in DOMAIN th :
          /\ (req[t].hpc = "searching" /\ req'[t].status \in {400, 500}) =>
                cache' = cache /\ th'[t] = th[t]
          /\ (StepOf(t) /\ req[t].status \in {400, 500} /\ req[t].hpc /= "done") =>
                cache' = cache /\ th'[t].op /= "set"
          /\ \A k \in DOMAIN cache'["SearchCache"] :
                cache'["SearchCache"][k].value.success
          /\ (req[t].hpc = "get" /\ req'[t].hpc = "done") => req'[t].result.success]_vars

\* C21 witness: a request whose search failed has been answered 400, nothing
\* is cached, and another request for the same key is inside the search.
C21_Witness ==
    \E t1, t2 \in DOMAIN th :
        /\ req[t1].hpc = "done" /\ req[t1].status = 400 /\ req[t1].acquired
        /\ ~req[t1].result.success
        /\ cache["SearchCache"] = EmptyDict /\ last_set["SearchCache"] = EmptyDict
        /\ req[t2].cache_key = req[t1].cache_key /\ req[t2].hpc = "searching"

\* The season markers among the recognized suffixes.
SeasonSuffixes == {"Saison 1", "Season 2", "S01", "2nd Season"}

\* Whether sub occurs in s.
Contains(s, sub) ==
    \E i \in 1..(Len(s) - Len(sub) + 1) : SubSeq(s, i, i + Len(sub) - 1) = sub

\* C22: normalize_query removes season references from the query only when
\* the season parameter is provided: with a season the marker appended to the
\* query is gone from the result, and with season None it is left in it.
C22_SeasonMarkersKeptWithoutSeason ==
    (/\ call.fn = "normalize_query" /\ call.how = "suffixed"
     /\ call.suffix \in SeasonSuffixes) =>
        IF call.season = {}
        THEN Contains(call.ret, lower(call.suffix))
        ELSE ~Contains(call.ret, lower(call.suffix))

\* C22, the state that refutes it: a season marker appended to a title was
\* removed although no season was passed.
C22_MarkerRemovedWithoutSeason ==
    /\ call.fn = "normalize_query" /\ call.how = "suffixed"
    /\ call.query = "foo Saison 1" /\ call.season = {}
    /\ call.ret = "foo"

\* C24: the service is disabled initially and, over any sequence of POST /config
\* and POST /test-login, is enabled only in states reached after a login test
\* has succeeded.
C24_EnabledOnlyAfterLogin == runtime_config.enabled => login_passed

\* The service enabled by POST /config with no login test passed.
C24_EnabledWithoutLogin ==
    /\ runtime_config.enabled /\ ~login_passed /\ ~runtime_config.authenticated
    /\ runtime_config.password = ""

\* The worker w takes a step of update_runtime_config.
UpdateStep(w) ==
    cfg_th[w].route = "config" /\ cfg_th[w].pc /= "idle" /\ cfg_th'[w] /= cfg_th[w]

\* C25: update_runtime_config(new_config) changes only the keys present in
\* new_config; a non-empty password also resets authenticated to false, an
\* absent or empty one leaves password and authenticated unchanged; the
\* configuration returned has no password in it.
C25_UpdateChangesOnlyGivenKeys ==
    [][\A w \in DOMAIN cfg_th : UpdateStep(w) =>
          LET new_config == cfg_th[w].data
              new_password == has_key(new_config, "password") /\ item(new_config, "password") /= ""
          IN
          /\ ~has_key(new_config, "enabled") => runtime_config'.enabled = runtime_config.enabled
          /\ ~has_key(new_config, "email") => runtime_config'.email = runtime_config.email
          /\ ~new_password =>
                /\ runtime_config'.password = runtime_config.password
                /\ runtime_config'.authenticated = runtime_config.authenticated
          /\ (new_password /\ cfg_th[w].pc = "password") =>
                /\ runtime_config'.password = item(new_config, "password")
                /\ ~runtime_config'.authenticated
          /\ cfg_th[w].pc = "return" =>
                /\ runtime_config' = runtime_config
                /\ "password" \notin DOMAIN cfg_th'[w].ret.body
                /\ cfg_th'[w].ret.body.has_password = (runtime_config.password /= "")
                /\ cfg_th'[w].ret.body.email = runtime_config.email
                /\ cfg_th'[w].ret.body.enabled = runtime_config.enabled
                /\ cfg_th'[w].ret.body.authenticated = runtime_config.authenticated]_vars

\* An update with only a new password is about to return: the service is
\* still enabled with its email, and no longer authenticated after a login
\* test had passed.
C25_Witness ==
    \E w \in DOMAIN cfg_th :
        /\ cfg_th[w].route = "config" /\ cfg_th[w].pc = "return"
        /\ cfg_th[w].data = [enabled |-> {}, email |-> {}, password |-> {"pw"}]
        /\ runtime_config = [enabled |-> TRUE, email |-> "e1", password |-> "pw",
                             authenticated |-> FALSE]
        /\ login_passed
        /\ \A v \in DOMAIN cfg_th : v /= w => cfg_th[v] = NoConfigRequest

\* C27: under any interleaving of get_driver and close_driver at most one
\* driver instance exists at a time; get_driver creates one only when none
\* exists and otherwise returns the existing one; when close_driver completes
\* the slot is empty, so that the next get_driver creates a fresh instance.
C27_DriverSingleton ==
    [][/\ Cardinality(open_drivers') <= 1
       /\ created' /= created =>
             /\ sb_instance = NoDriver /\ open_drivers = {}
             /\ sb_instance' = created' /\ open_drivers' = {created'}
             /\ \A t \in DOMAIN dth : dth[t].sb /= created'
       /\ \A t \in DOMAIN dth :
             /\ (dth[t].pc = "get_check" /\ dth'[t].pc = "get_return") =>
                   IF sb_instance /= NoDriver
                   THEN sb_instance' = sb_instance /\ created' = created
                   ELSE created' = created + 1 /\ sb_instance' = created'
             /\ (dth[t].pc = "get_return" /\ dth'[t].pc = "using") =>
                   dth'[t].sb = sb_instance /\ open_drivers = {sb_instance}
             /\ (dth[t].pc = "close_exit" /\ dth'[t].pc = "unstarted") =>
                   sb_instance' = NoDriver /\ open_drivers' = {}]_vars

\* A second driver has been created after the first was closed, while a
\* thread is in get_driver and a background thread waits to close.
C27_Witness ==
    /\ created = 2 /\ sb_instance = 2 /\ open_drivers = {2}
    /\ \E t, c \in DOMAIN dth : dth[t].pc = "get_return" /\ dth[c].pc = "close_driver"

\* C30: the driver instance a search or login test in progress obtained from
\* get_driver is never closed by the background close_driver thread started
\* at the end of an earlier search or login test.
C30_DriverInUseStaysOpen ==
    \A t \in DOMAIN dth : dth[t].pc = "using" => dth[t].sb \in open_drivers

\* A search works with the first driver, which the background thread of an
\* earlier search has closed.
C30_ClosedUnderSearch ==
    \E t, c \in DOMAIN dth :
        /\ dth[t].pc = "using" /\ dth[t].sb = 1 /\ created = 1 /\ open_drivers = {}
        /\ dth[c].pc = "close_clear"
        /\ \A u \in DOMAIN dth : u \notin {t, c} => dth[u].pc \in {"idle", "unstarted"}

\* The search cache holds an unexpired successful result for key k.
StoredFresh(k) ==
    /\ k \in DOMAIN cache["SearchCache"]
    /\ is_fresh(now, cache["SearchCache"][k].expires_at)
    /\ cache["SearchCache"][k].value.success

\* C29: once a successful result for a key is stored and not expired, no new
\* external search for that key is started: a request that looked into the
\* cache before the holder stored its result does not go on, after the
\* holder's release, to acquire the guard and search again.
C29_NoSearchOnceStored ==
    [][\A t \in DOMAIN th :
          (req[t].hpc = "acquire" /\ req'[t].hpc = "searching") =>
              ~StoredFresh(req[t].cache_key)]_vars

\* A request is searching for a key whose result another request has stored
\* and answered with.
C29_SearchRepeated ==
    \E t1, t2 \in DOMAIN th :
        /\ t1 /= t2 /\ req[t1].cache_key = req[t2].cache_key
        /\ req[t1].hpc = "done" /\ req[t1].status = 200 /\ req[t1].acquired
        /\ req[t2].hpc = "searching"
        /\ StoredFresh(req[t2].cache_key)
        /\ now = 0

\* The thread t takes the step of search() that receives a request.
Arrives(t) == req[t].hpc \in {"none", "done"} /\ req'[t] /= req[t]

\* C23: the checks come before any use of the cache or the guard: a /search
\* request for a series or an anime without a season, one without a name and
\* any request while the service is disabled is rejected without reading or
\* writing search_cache, without acquiring search_guard and without running
\* the external search.
C23_RejectedBeforeCacheAndGuard ==
    [][\A t \in DOMAIN th : Arrives(t) =>
          LET data == req'[t].data
              invalid == \/ ~runtime_config.enabled
                         \/ data.name = ""
                         \/ media_type_of(data) \in {"series", "animes"} /\ data.season = ""
          IN
          /\ invalid =>
                /\ req'[t].hpc = "done"
                /\ req'[t].status = (IF runtime_config.enabled THEN 400 ELSE 503)
                /\ ~req'[t].acquired /\ req'[t].result = None
                /\ th' = th
                /\ cache' = cache /\ cache_lock' = cache_lock /\ nosweep' = nosweep
                /\ last_set' = last_set
                /\ active_requests' = active_requests /\ guard_lock' = guard_lock
                /\ granted' = granted /\ denied' = denied
          /\ req'[t].hpc /= "done" =>
                /\ ~invalid
                /\ th'[t].op = "get" /\ th'[t].key = req'[t].cache_key]_vars

\* A series request without a season was rejected while the cache holds a
\* result and the other thread is searching with the guard held.
C23_Witness ==
    \E t1, t2 \in DOMAIN th :
        /\ req[t1].hpc = "done" /\ req[t1].status = 400
        /\ req[t1].data = Params("foo", {"series"}, "", "", "")
        /\ req[t1].error = "Season parameter is required"
        /\ req[t2].hpc = "searching" /\ req[t2].cache_key \in active_requests
        /\ cache["SearchCache"] /= EmptyDict
        /\ runtime_config.enabled

\* C28: a response served from search_cache was computed by a search with
\* the same request parameters, the allowed hosters among them: requests that
\* differ in the normalized query, the type, the season, the episode or the
\* hoster list do not share a cache key.
C28_ServedResultHasSameParameters ==
    [][\A t \in DOMAIN th :
          (req[t].hpc = "get" /\ req'[t].hpc = "done") =>
              req'[t].result.releases = ArgsTable[req[t].data]]_vars

\* A request with the hoster list "a" was answered from the cache with the
\* result of a search without hoster list.
C28_ServedOtherHosters ==
    \E t \in DOMAIN th :
        /\ req[t].hpc = "done" /\ req[t].status = 200 /\ ~req[t].acquired
        /\ req[t].data = Params("foo", {}, "", "", "a")
        /\ req[t].result.releases.allowed_hosters = <<>>
        /\ req[t].result.releases.name = "foo"

\* debrid_cache holds an unexpired entry for the link.
CachedFresh(link) ==
    /\ link \in DOMAIN cache["DebridCache"]
    /\ is_fresh(now, cache["DebridCache"][link].expires_at)

====
